---- MODULE Spec2Model ----
(***************************************************************************)
(* Command execution policy engine of codex-rs.                            *)
(*                                                                         *)
(*   - policy_parser.rs : the parser of the crate codex_execpolicy: the    *)
(*     policy builder and the builtins of the policy language              *)
(*     (define_program, forbid_substrings, forbid_program_regex);          *)
(*   - exec_policy.rs   : exec_policy_for (loading the policy files of a   *)
(*     directory) and evaluate_with_policy (decompose, check, map the      *)
(*     evaluation to an approval requirement), both on the parser and the  *)
(*     Policy of the crate codex_execpolicy2;                              *)
(*   - execpolicy2/main.rs : the command-line front end;                   *)
(*   - app-server/bespoke_event_handling.rs : turn accumulators, interrupt *)
(*     replies and approval requests;                                      *)
(*   - core/tasks/undo.rs and ghost_snapshot.rs : the undo task and the    *)
(*     ghost snapshot task of a session.                                   *)
(*                                                                         *)
(* Text is modelled as a sequence of words: a token of an argv is a        *)
(* sequence of words (one word for a plain token, several for an inline    *)
(* script), and "s is a substring of t" is "s is a contiguous run of the   *)
(* words of t".                                                            *)
(***************************************************************************)
EXTENDS Integers, Sequences, FiniteSets, TLC

VARIABLES
    phase,            \* "parsing" | "built" | "failed" : state of the compile pass
    parser,           \* the crate whose PolicyParser runs the compile pass
    source,           \* the statements of the policy source evaluated so far
    builder,          \* PolicyBuilder: programs, forbidden_program_regexes, forbidden_substrings
    policy,           \* the compiled Policy (NoPolicy until build)
    command,          \* argv of the last evaluate_with_policy call
    approval_policy,  \* AskForApproval of the last evaluate_with_policy call
    commands,         \* the inner commands handed to check_multiple by that call
    evaluation,       \* the Evaluation check_multiple returned
    requirement,      \* Option<ApprovalRequirement> returned to the caller
    features_enabled, \* features.enabled(Feature::ExecPolicyV2) of the last exec_policy_for call
    policy_dir,       \* the directory that call read
    load_result,      \* what that call returned
    pc,               \* per thread: "idle" | "running" (inside evaluate_with_policy)
    calls,            \* per thread: the command and approval_policy of its call
    inner,            \* per thread: its local `commands` (line 112)
    overlapped,       \* per thread: another call was running during this one
    history,          \* the last two calls that returned, with what they returned
    cli_policies,     \* --policies of the last codex-execpolicy2 check run
    cli_args,         \* its trailing command tokens
    cli_result,       \* what cmd_check did: printed the evaluation, or failed
    turn_state,       \* TURN_STATE: HashMap<TurnKey, TurnAccum>
    pending_interrupts, \* per conversation: the interrupt requests waiting for TurnAborted
    event,            \* the last event whose handler returned
    outgoing,         \* what the handling of that event sent through `outgoing`, in order
    handlers,         \* per conversation: the handler of the event being handled, at its await
    delivered,        \* the events and client requests delivered to the server so far
    callbacks,        \* the spawned on_*_approval_response tasks, with their receivers
    submitted,        \* the Ops submitted to the conversations, in order
    session_history,  \* the history of the session: the ResponseItems recorded so far
    undo,             \* the UndoTask run: its position, token and locals
    undo_events,      \* the events that run sent with send_event, in order
    ghost,            \* the GhostSnapshotTask run: its position, token and result
    background_events, \* the background events that run sent, in order
    gate              \* ctx.tool_call_gate: ready flag and the tokens mark_ready was called with

vars == <<phase, parser, source, builder, policy, command, approval_policy,
          commands, evaluation, requirement, features_enabled, policy_dir,
          load_result, pc, calls, inner, overlapped, history,
          cli_policies, cli_args, cli_result,
          turn_state, pending_interrupts, event, outgoing, handlers, delivered,
          callbacks, submitted,
          session_history, undo, undo_events, ghost, background_events, gate>>

evalVars == <<command, approval_policy, commands, evaluation, requirement>>
loadVars == <<features_enabled, policy_dir, load_result>>
sharedVars == <<pc, calls, inner, overlapped, history>>
cliVars == <<cli_policies, cli_args, cli_result>>
serverVars == <<turn_state, pending_interrupts, event, outgoing, handlers, delivered>>
engineVars == <<phase, parser, source, builder, policy, evalVars, loadVars, sharedVars, cliVars>>
approvalVars == <<callbacks, submitted>>
taskVars == <<session_history, undo, undo_events, ghost, background_events, gate>>

----------------------------------------------------------------------------
(* Bounds *)

\* statements evaluated in one compile pass
MaxStmts == 2

----------------------------------------------------------------------------
(* Values *)

NONE == "None"

FORBIDDEN_REASON == "execpolicy forbids this command"
PROMPT_REASON == "execpolicy requires approval for this command"

\* codex_protocol::protocol::AskForApproval
AskForApproval == {"UnlessTrusted", "OnFailure", "OnRequest", "Never"}

\* Decision, ordered by severity
Decisions == {"Allow", "Prompt", "Forbidden"}

NoMatch == [tag |-> "NoMatch"]
Match(decision, reason) == [tag |-> "Match", decision |-> decision, reason |-> reason]

\* Option<ApprovalRequirement>
NoRequirement == [tag |-> "None"]
Skip == [tag |-> "Skip"]
NeedsApproval(reason) == [tag |-> "NeedsApproval", reason |-> reason]
Forbidden(reason) == [tag |-> "Forbidden", reason |-> reason]

NoPolicy == [tag |-> "NoPolicy"]

\* a plain one-word token
Tok(w) == <<w>>

\* an argv of plain tokens from a sequence of words
Argv(ws) == [i \in 1..Len(ws) |-> Tok(ws[i])]

----------------------------------------------------------------------------
(* Sequences *)

RECURSIVE Flatten(_)
Flatten(ss) == IF ss = <<>> THEN <<>> ELSE Head(ss) \o Flatten(Tail(ss))

\* s occurs in t as a contiguous run
Contains(t, s) ==
    \E i \in 0..(Len(t) - Len(s)) : \A k \in 1..Len(s) : t[i + k] = s[k]

Range(s) == {s[i] : i \in 1..Len(s)}

----------------------------------------------------------------------------
(* The file system seen by the file matchers and the regex library *)

ReadablePaths == {"a.txt", "b.txt", "/tmp"}
WriteablePaths == {"b.txt", "/tmp"}

ValidRegexes == {"^cat$", "sh$"}

\* regex_lite::Regex::new
RegexNew(re) == re \in ValidRegexes

\* regex_lite::Regex::is_match on a program name
is_match(re, text) ==
    CASE re = "^cat$" -> text = "cat"
      [] re = "sh$" -> text \in {"sh", "bash", "zsh"}
      [] OTHER -> FALSE

----------------------------------------------------------------------------
(* Matcher library (spec section 3): predicates over one token or a tail *)

ArgMatchers == {"OpaqueNonFile", "ReadableFile", "WriteableFile", "ReadableFiles",
                "ReadableFilesOrCwd", "PositiveInteger", "SedCommand",
                "UnverifiedVarargs"}

VariadicMatchers == {"ReadableFiles", "ReadableFilesOrCwd", "UnverifiedVarargs"}

OptionWords == {"-f", "-rf", "-lc", "-n"}

\* a token that starts with "-"
IsOption(tok) == Len(tok) = 1 /\ tok[1] \in OptionWords

\* one token against a matcher; a path that cannot be stat'ed fails the predicate
MatchesOne(m, tok) ==
    CASE m = "OpaqueNonFile" -> TRUE
      [] m \in {"ReadableFile", "ReadableFiles", "ReadableFilesOrCwd"} ->
            Len(tok) = 1 /\ tok[1] \in ReadablePaths
      [] m = "WriteableFile" -> Len(tok) = 1 /\ tok[1] \in WriteablePaths
      [] m = "PositiveInteger" -> Len(tok) = 1 /\ tok[1] \in {"1", "2"}
      [] m = "SedCommand" -> Len(tok) = 1 /\ tok[1] \in {"s/a/b/"}
      [] m = "UnverifiedVarargs" -> TRUE
      [] OTHER -> FALSE

\* the positional tokens against positional_args, in order; a variadic
\* matcher consumes and validates every remaining token
RECURSIVE MatchPositional(_, _)
MatchPositional(patterns, toks) ==
    IF patterns = <<>> THEN toks = <<>>
    ELSE LET p == Head(patterns) IN
         IF p \in VariadicMatchers
         THEN /\ \A i \in 1..Len(toks) : MatchesOne(p, toks[i])
              /\ (p = "ReadableFiles" => toks # <<>>)
              /\ MatchPositional(Tail(patterns), <<>>)
         ELSE /\ toks # <<>>
              /\ MatchesOne(p, Head(toks))
              /\ MatchPositional(Tail(patterns), Tail(toks))

\* walk the tokens: the "-" prefixed ones against the option map; the other
\* tokens are collected as positionals
RECURSIVE WalkArgs(_, _, _, _)
WalkArgs(spec, toks, positional, seen) ==
    IF toks = <<>> THEN [ok |-> TRUE, positional |-> positional, seen |-> seen]
    ELSE LET t == Head(toks)
             failed == [ok |-> FALSE, positional |-> positional, seen |-> seen]
         IN
         IF IsOption(t)
         THEN IF t[1] \notin DOMAIN spec.allowed_options THEN failed
              ELSE LET o == spec.allowed_options[t[1]] IN
                   IF o.kind = "Flag"
                   THEN WalkArgs(spec, Tail(toks), positional, seen \cup {o.name})
                   ELSE IF Len(toks) < 2 \/ ~MatchesOne(o.matcher, toks[2])
                        THEN failed
                        ELSE WalkArgs(spec, Tail(Tail(toks)), positional,
                                      seen \cup {o.name})
         ELSE WalkArgs(spec, Tail(toks), Append(positional, t), seen)

\* structural match of the arguments of one invocation against one ProgramSpec
StructuralMatch(spec, args) ==
    LET w == WalkArgs(spec, args, <<>>, {}) IN
    /\ w.ok
    /\ \A n \in DOMAIN spec.allowed_options :
          spec.allowed_options[n].required => n \in w.seen
    /\ MatchPositional(spec.arg_patterns, w.positional)

\* pattern is a prefix of the command
IsPrefix(pattern, cmd) ==
    /\ Len(pattern) <= Len(cmd)
    /\ \A i \in 1..Len(pattern) : cmd[i] = pattern[i]

\* does the rule apply to the command (cmd[1] is the program)
SpecMatches(spec, cmd) ==
    IF spec.kind = "prefix" THEN IsPrefix(spec.pattern, cmd)
    ELSE \/ spec.forbidden # NONE
         \/ StructuralMatch(spec, Tail(cmd))

\* the Evaluation of a rule that applies
SpecEvaluation(spec) ==
    IF spec.kind = "prefix" THEN Match(spec.decision, NONE)
    ELSE IF spec.forbidden # NONE THEN Match("Forbidden", spec.forbidden)
    ELSE Match("Allow", NONE)

----------------------------------------------------------------------------
(* Opt and ProgramSpec *)

\* opt(name, type, required)
opt(name, type, required) ==
    [name |-> name, kind |-> "Value", matcher |-> type, required |-> required]

\* flag(name)
flag(name) == [name |-> name, kind |-> "Flag", matcher |-> NONE, required |-> FALSE]

\* ProgramSpec::new
ProgramSpecNew(program, system_path, option_bundling, combined_format, allowed_options, args, forbidden, should_match, should_not_match) ==
    [kind |-> "program",
     program |-> program,
     system_path |-> system_path,
     option_bundling |-> option_bundling,
     combined_format |-> combined_format,
     allowed_options |-> allowed_options,
     arg_patterns |-> args,
     forbidden |-> forbidden,
     should_match |-> should_match,
     should_not_match |-> should_not_match]

----------------------------------------------------------------------------
(* PolicyBuilder (policy_parser.rs) *)

ProgramNames == {"rm", "cat", "ls", "git", "bash"}

\* PolicyBuilder::new
PolicyBuilderNew ==
    [programs |-> [n \in ProgramNames |-> <<>>],
     forbidden_program_regexes |-> <<>>,
     forbidden_substrings |-> <<>>]

\* add_program_spec putting the new spec in front of the ones already kept
\* under the program name
add_program_spec_prepend(b, program_spec) ==
    [b EXCEPT !.programs[program_spec.program] = <<program_spec>> \o @]

\* PolicyBuilder::add_program_spec: MultiMap::insert appends to the vector
\* kept under the program name
add_program_spec(b, program_spec) ==
    [b EXCEPT !.programs[program_spec.program] = Append(@, program_spec)]

\* add_forbidden_substrings extending a copy of the list: nothing is recorded
add_forbidden_substrings_lost(b, substrings) == b

\* PolicyBuilder::add_forbidden_substrings
add_forbidden_substrings(b, substrings) ==
    [b EXCEPT !.forbidden_substrings = @ \o substrings]

\* PolicyBuilder::add_forbidden_program_regex
add_forbidden_program_regex(b, regex, reason) ==
    [b EXCEPT !.forbidden_program_regexes =
                  Append(@, [regex |-> regex, reason |-> reason])]

\* PolicyBuilder::build: Policy::new freezes the three collections
\* Policy::new: the accumulated regex strings are compiled, an invalid one
\* is the Err; otherwise the three collections are frozen into the Policy
PolicyNew(programs, forbidden_program_regexes, forbidden_substrings) ==
    IF \E i \in 1..Len(forbidden_program_regexes) :
           ~RegexNew(forbidden_program_regexes[i].regex)
    THEN [ok |-> FALSE, policy |-> NoPolicy]
    ELSE [ok |-> TRUE,
          policy |-> [tag |-> "Policy",
                      programs |-> programs,
                      forbidden_program_regexes |-> forbidden_program_regexes,
                      forbidden_substrings |-> forbidden_substrings]]

\* PolicyBuilder::build: Result<Policy, regex_lite::Error>
build(b) ==
    PolicyNew(b.programs, b.forbidden_program_regexes, b.forbidden_substrings)

\* codex_execpolicy2: PolicyParser::build, which returns the Policy itself
\* (exec_policy.rs line 97, main.rs line 53)
parser_build(b) ==
    [tag |-> "Policy",
     programs |-> b.programs,
     forbidden_program_regexes |-> b.forbidden_program_regexes,
     forbidden_substrings |-> b.forbidden_substrings]

----------------------------------------------------------------------------
(* Builtins of the policy language (policy_parser.rs, policy_builtins).    *)
(* Each takes the builder and the arguments of the call and gives          *)
(* [ok, builder]: ok = FALSE is the Err the builtin returns.               *)

\* the loop of define_program with the return value of HashMap::insert
\* ignored: the last option of a name replaces the earlier ones
InsertOptions_overwrite(options, allowed_options) ==
    [ok |-> TRUE,
     allowed_options |->
         [n \in {options[i].name : i \in 1..Len(options)} |->
             options[CHOOSE i \in 1..Len(options) :
                         /\ options[i].name = n
                         /\ \A j \in 1..Len(options) : options[j].name = n => j <= i]]
         @@ allowed_options]

\* the loop of define_program that fills allowed_options: HashMap::insert
\* returns Some when the name is already present
RECURSIVE InsertOptions(_, _)
InsertOptions(options, allowed_options) ==
    IF options = <<>> THEN [ok |-> TRUE, allowed_options |-> allowed_options]
    ELSE LET o == Head(options) IN
         IF o.name \in DOMAIN allowed_options
         THEN [ok |-> FALSE, allowed_options |-> allowed_options]
         ELSE InsertOptions(Tail(options), (o.name :> o) @@ allowed_options)

\* define_program with ARG_RFILES bound to ArgMatcher::UnverifiedVarargs
define_program_unverified_args(b, call) ==
    LET ins == InsertOptions(call.options, <<>>)
        args == [i \in 1..Len(call.args) |->
                    IF call.args[i] = "ReadableFiles" THEN "UnverifiedVarargs"
                    ELSE call.args[i]]
    IN
    IF ~ins.ok THEN [ok |-> FALSE, builder |-> b]
    ELSE [ok |-> TRUE,
          builder |-> add_program_spec(b,
              ProgramSpecNew(call.program, call.system_path, call.option_bundling,
                             call.combined_format, ins.allowed_options, args,
                             call.forbidden, call.should_match,
                             call.should_not_match))]

\* define_program without the forbidden reason handed to ProgramSpec::new
define_program_forbidden_dropped(b, call) ==
    LET ins == InsertOptions(call.options, <<>>) IN
    IF ~ins.ok THEN [ok |-> FALSE, builder |-> b]
    ELSE [ok |-> TRUE,
          builder |-> add_program_spec(b,
              ProgramSpecNew(call.program, call.system_path, call.option_bundling,
                             call.combined_format, ins.allowed_options, call.args,
                             NONE, call.should_match, call.should_not_match))]

define_program(b, call) ==
    LET ins == InsertOptions(call.options, <<>>) IN
    IF ~ins.ok THEN [ok |-> FALSE, builder |-> b]
    ELSE [ok |-> TRUE,
          builder |-> add_program_spec(b,
              ProgramSpecNew(call.program, call.system_path, call.option_bundling,
                             call.combined_format, ins.allowed_options, call.args,
                             call.forbidden, call.should_match,
                             call.should_not_match))]

forbid_substrings(b, call) ==
    [ok |-> TRUE, builder |-> add_forbidden_substrings(b, call.strings)]

\* forbid_program_regex leaving out a pattern that does not compile
forbid_program_regex_skip_invalid(b, call) ==
    IF ~RegexNew(call.regex) THEN [ok |-> TRUE, builder |-> b]
    ELSE [ok |-> TRUE,
          builder |-> add_forbidden_program_regex(b, call.regex, call.reason)]

forbid_program_regex(b, call) ==
    IF ~RegexNew(call.regex) THEN [ok |-> FALSE, builder |-> b]
    ELSE [ok |-> TRUE,
          builder |-> add_forbidden_program_regex(b, call.regex, call.reason)]

\* prefix_rule(pattern=[...], decision=...) as used by the policy of
\* tests::evaluates_bash_lc_inner_commands: a rule with its own decision
prefix_rule(b, call) ==
    IF call.pattern = <<>> \/ call.decision \notin Decisions
    THEN [ok |-> FALSE, builder |-> b]
    ELSE [ok |-> TRUE,
          builder |-> add_program_spec(b,
              [kind |-> "prefix", program |-> call.pattern[1][1],
               pattern |-> call.pattern, decision |-> call.decision])]

\* codex_execpolicy, eval_module on one top-level statement of a source that
\* AstModule::parse accepted: a call of one of the three builtins runs it; a
\* legal statement that calls none of them (an assignment, a def) succeeds
\* and leaves the builder alone; a call of a name the globals do not bind
\* (prefix_rule is one) is an evaluation error
EvalStatement(b, stmt) ==
    CASE stmt.kind = "define_program" -> define_program(b, stmt)
      [] stmt.kind = "forbid_substrings" -> forbid_substrings(b, stmt)
      [] stmt.kind = "forbid_program_regex" -> forbid_program_regex(b, stmt)
      [] stmt.kind = "assignment" -> [ok |-> TRUE, builder |-> b]
      [] OTHER -> [ok |-> FALSE, builder |-> b]

\* codex_execpolicy2, one top-level statement: the statements of the policy
\* language (spec section 4.1) and prefix_rule
EvalStatementV2(b, stmt) ==
    IF stmt.kind = "prefix_rule" THEN prefix_rule(b, stmt)
    ELSE EvalStatement(b, stmt)

\* a source text that is not syntactically a module is rejected as a whole
HasSyntaxError(stmts) == \E k \in 1..Len(stmts) : stmts[k].kind = "syntax_error"

----------------------------------------------------------------------------
(* Evaluator (spec section 4.3): Policy::check and Policy::check_multiple *)

Severity(e) ==
    IF e.tag = "NoMatch" THEN 0
    ELSE CASE e.decision = "Allow" -> 1
           [] e.decision = "Prompt" -> 2
           [] e.decision = "Forbidden" -> 3

\* the program name a command is looked up under
Basename(w) == IF w = "/bin/rm" THEN "rm" ELSE w

\* the joined text of a command
JoinedText(cmd) == Flatten(cmd)

\* the specs registered under the program, in registration order: the
\* first one that matches decides
RECURSIVE FirstMatch(_, _)
FirstMatch(specs, cmd) ==
    IF specs = <<>> THEN NoMatch
    ELSE IF SpecMatches(Head(specs), cmd) THEN SpecEvaluation(Head(specs))
    ELSE FirstMatch(Tail(specs), cmd)

check(p, cmd) ==
    IF cmd = <<>> THEN NoMatch
    ELSE LET program == Basename(cmd[1][1])
             regexes == p.forbidden_program_regexes
             hits == {i \in 1..Len(regexes) : is_match(regexes[i].regex, program)}
         IN
         IF \E i \in 1..Len(p.forbidden_substrings) :
                Contains(JoinedText(cmd), p.forbidden_substrings[i])
         THEN Match("Forbidden", "forbidden substring")
         ELSE IF hits # {}
         THEN Match("Forbidden", regexes[CHOOSE i \in hits : \A j \in hits : i <= j].reason)
         ELSE IF program \in DOMAIN p.programs
         THEN FirstMatch(p.programs[program], cmd)
         ELSE NoMatch

\* the more severe of two evaluations (the earlier one on a tie)
MoreSevere(e1, e2) == IF Severity(e2) > Severity(e1) THEN e2 ELSE e1

RECURSIVE check_multiple(_, _)
check_multiple(p, cmds) ==
    IF cmds = <<>> THEN NoMatch
    ELSE MoreSevere(check(p, Head(cmds)), check_multiple(p, Tail(cmds)))

----------------------------------------------------------------------------
(* Shell decomposer (spec section 4.2): bash::parse_shell_lc_plain_commands *)

Shells == {"bash", "zsh"}
InlineScriptFlags == {"-lc", "-c"}
SequencingOperators == {"&&", "||", ";"}
UnsupportedConstructs == {"|", "$(", "(", ">"}

\* the words of a script split at the sequencing operators
RECURSIVE SplitScript(_, _, _)
SplitScript(words, cur, acc) ==
    IF words = <<>> THEN Append(acc, cur)
    ELSE IF Head(words) \in SequencingOperators
    THEN SplitScript(Tail(words), <<>>, Append(acc, cur))
    ELSE SplitScript(Tail(words), Append(cur, Tok(Head(words))), acc)

\* Option<Vec<Vec<String>>>: ok = FALSE is None
parse_shell_lc_plain_commands(cmd) ==
    IF /\ Len(cmd) = 3
       /\ Len(cmd[1]) = 1 /\ cmd[1][1] \in Shells
       /\ Len(cmd[2]) = 1 /\ cmd[2][1] \in InlineScriptFlags
    THEN LET script == cmd[3]
             parts == SplitScript(script, <<>>, <<>>)
         IN
         IF \/ \E i \in 1..Len(script) : script[i] \in UnsupportedConstructs
            \/ \E i \in 1..Len(parts) : parts[i] = <<>>
         THEN [ok |-> FALSE, cmds |-> <<>>]
         ELSE [ok |-> TRUE, cmds |-> parts]
    ELSE [ok |-> FALSE, cmds |-> <<>>]

----------------------------------------------------------------------------
(* exec_policy.rs: evaluate_with_policy *)

\* line 112 falling back to the arguments without the program token
InnerCommands_fallback_args(cmd) ==
    LET parsed == parse_shell_lc_plain_commands(cmd) IN
    IF parsed.ok THEN parsed.cmds
    ELSE IF cmd = <<>> THEN <<cmd>> ELSE <<Tail(cmd)>>

\* line 112 with unwrap_or_default: no command when the argv is not decomposed
InnerCommands_fallback_empty(cmd) ==
    LET parsed == parse_shell_lc_plain_commands(cmd) IN
    IF parsed.ok THEN parsed.cmds ELSE <<>>

\* line 112 without the decomposition: the argv is always one opaque command
InnerCommands_opaque(cmd) == <<cmd>>

\* line 112: the inner commands, or the argv itself as the only command
InnerCommands(cmd) ==
    LET parsed == parse_shell_lc_plain_commands(cmd) IN
    IF parsed.ok THEN parsed.cmds ELSE <<cmd>>

\* the reason of the matching rule handed on in place of the two constants
map_to_requirement_rule_reason(e, mode) ==
    IF e.tag = "Match"
    THEN CASE e.decision = "Forbidden" -> Forbidden(e.reason)
           [] e.decision = "Prompt" ->
                IF mode = "Never" THEN Forbidden(e.reason)
                ELSE NeedsApproval(e.reason)
           [] e.decision = "Allow" -> Skip
    ELSE NoRequirement

\* Prompt asks even when the approval mode is Never
map_to_requirement_prompt_asks(e, mode) ==
    IF e.tag = "Match"
    THEN CASE e.decision = "Forbidden" -> Forbidden(FORBIDDEN_REASON)
           [] e.decision = "Prompt" -> NeedsApproval(PROMPT_REASON)
           [] e.decision = "Allow" -> Skip
    ELSE NoRequirement

\* Forbidden is handled like Prompt: it asks unless the mode is Never
map_to_requirement_forbidden_asks(e, mode) ==
    IF e.tag = "Match"
    THEN CASE e.decision \in {"Forbidden", "Prompt"} ->
                IF mode = "Never" THEN Forbidden(FORBIDDEN_REASON)
                ELSE NeedsApproval(PROMPT_REASON)
           [] e.decision = "Allow" -> Skip
    ELSE NoRequirement

\* NeedsApproval built with reason: None
map_to_requirement_no_reason(e, mode) ==
    IF e.tag = "Match"
    THEN CASE e.decision = "Forbidden" -> Forbidden(FORBIDDEN_REASON)
           [] e.decision = "Prompt" ->
                IF mode = "Never" THEN Forbidden(PROMPT_REASON)
                ELSE NeedsApproval(NONE)
           [] e.decision = "Allow" -> Skip
    ELSE NoRequirement

\* Allow skips only when the mode does not insist on asking
map_to_requirement_allow_asks(e, mode) ==
    IF e.tag = "Match"
    THEN CASE e.decision = "Forbidden" -> Forbidden(FORBIDDEN_REASON)
           [] e.decision = "Prompt" ->
                IF mode = "Never" THEN Forbidden(PROMPT_REASON)
                ELSE NeedsApproval(PROMPT_REASON)
           [] e.decision = "Allow" ->
                IF mode = "UnlessTrusted" THEN NeedsApproval(PROMPT_REASON) ELSE Skip
    ELSE NoRequirement

\* NoMatch refused when nobody can be asked
map_to_requirement_nomatch_refused(e, mode) ==
    IF e.tag = "Match"
    THEN CASE e.decision = "Forbidden" -> Forbidden(FORBIDDEN_REASON)
           [] e.decision = "Prompt" ->
                IF mode = "Never" THEN Forbidden(PROMPT_REASON)
                ELSE NeedsApproval(PROMPT_REASON)
           [] e.decision = "Allow" -> Skip
    ELSE IF mode = "Never" THEN Forbidden(FORBIDDEN_REASON) ELSE NoRequirement

\* lines 115-133: the match on the evaluation
map_to_requirement(e, mode) ==
    IF e.tag = "Match"
    THEN CASE e.decision = "Forbidden" -> Forbidden(FORBIDDEN_REASON)
           [] e.decision = "Prompt" ->
                IF mode = "Never" THEN Forbidden(PROMPT_REASON)
                ELSE NeedsApproval(PROMPT_REASON)
           [] e.decision = "Allow" -> Skip
    ELSE NoRequirement

\* line 112 with expect() in place of unwrap_or_else: an argv that is not
\* decomposed ends the evaluation with an error
evaluate_with_policy_expects_script(p, cmd, mode) ==
    IF parse_shell_lc_plain_commands(cmd).ok
    THEN LET cmds == InnerCommands(cmd)
             e == check_multiple(p, cmds)
         IN [commands |-> cmds, evaluation |-> e,
             requirement |-> map_to_requirement(e, mode)]
    ELSE [commands |-> <<>>, evaluation |-> [tag |-> "Error"],
          requirement |-> NoRequirement]

\* line 113 giving NoMatch as soon as one inner command has no match
evaluate_with_policy_all_must_match(p, cmd, mode) ==
    LET cmds == InnerCommands(cmd)
        e == IF \E i \in 1..Len(cmds) : check(p, cmds[i]) = NoMatch
             THEN NoMatch ELSE check_multiple(p, cmds)
    IN [commands |-> cmds, evaluation |-> e,
        requirement |-> map_to_requirement(e, mode)]

\* line 113 calling check on the first inner command instead of check_multiple
evaluate_with_policy_first_only(p, cmd, mode) ==
    LET cmds == InnerCommands(cmd)
        e == check(p, Head(cmds))
    IN [commands |-> cmds, evaluation |-> e,
        requirement |-> map_to_requirement(e, mode)]

evaluate_with_policy(p, cmd, mode) ==
    LET cmds == InnerCommands(cmd)
        e == check_multiple(p, cmds)
    IN [commands |-> cmds, evaluation |-> e,
        requirement |-> map_to_requirement(e, mode)]

----------------------------------------------------------------------------
(* Inputs *)

\* inner commands of one inline script
MaxCmds == 2

SeqsUpTo(S, n) == UNION {[1..k -> S] : k \in 0..n}

DefineProgramCall(program, options, args, forbidden, should_match, should_not_match) ==
    [kind |-> "define_program", program |-> program, system_path |-> <<>>,
     option_bundling |-> FALSE, combined_format |-> FALSE,
     options |-> options, args |-> args, forbidden |-> forbidden,
     should_match |-> should_match, should_not_match |-> should_not_match]

DefineProgramCalls ==
    { \* define_program("rm", forbidden="no deletes")
      DefineProgramCall("rm", <<>>, <<>>, "no deletes", <<>>, <<>>),
      \* a cat spec whose self-tests hold
      DefineProgramCall("cat", <<flag("-f")>>, <<"ReadableFiles">>, NONE,
                        <<Argv(<<"a.txt">>)>>, <<Argv(<<"missing">>)>>),
      \* an rm spec that allows rm -rf on readable paths; its should_match
      \* lists arguments it does not match and its should_not_match lists
      \* arguments it matches
      DefineProgramCall("rm", <<flag("-rf")>>, <<"ReadableFiles">>, NONE,
                        <<Argv(<<"missing">>)>>, <<Argv(<<"-rf", "/tmp">>)>>),
      \* two options of the same name
      DefineProgramCall("cat", <<flag("-f"), flag("-f")>>, <<>>, NONE, <<>>, <<>>) }

ForbidSubstringsCalls ==
    { [kind |-> "forbid_substrings",
       strings |-> << <<"curl", "|", "sh">>, <<"a.txt">> >>] }

ForbidProgramRegexCalls ==
    { [kind |-> "forbid_program_regex", regex |-> "^cat$", reason |-> "no cat"],
      [kind |-> "forbid_program_regex", regex |-> "(", reason |-> "unbalanced"] }

PrefixRuleCalls ==
    { [kind |-> "prefix_rule", pattern |-> Argv(<<"git", "status">>),
       decision |-> "Prompt"] }

\* a call of a name that is bound in neither crate
UnknownStatements == { [kind |-> "unknown"] }

\* an assignment: legal, and no call of a builtin
Assignments == { [kind |-> "assignment"] }

\* the token at which a source text stops being a module
SyntaxErrors == { [kind |-> "syntax_error"] }

\* codex_execpolicy is the crate of policy_parser.rs; core and the
\* command-line front end link codex_execpolicy2
Parsers == {"codex_execpolicy", "codex_execpolicy2"}

PlainCommands ==
    { Argv(<<"rm", "-rf", "/tmp">>), Argv(<<"cat", "a.txt">>), Argv(<<"git", "status">>) }

\* the script "c1 && c2 && ..." as words
RECURSIVE JoinScript(_)
JoinScript(cmds) ==
    IF cmds = <<>> THEN <<>>
    ELSE IF Len(cmds) = 1 THEN Flatten(cmds[1])
    ELSE Flatten(cmds[1]) \o <<"&&">> \o JoinScript(Tail(cmds))

ShellCommand(script) == <<Tok("bash"), Tok("-lc"), script>>

\* the commands inline scripts are generated from
ScriptParts == { Argv(<<"cat", "a.txt">>), Argv(<<"rm", "-rf", "/tmp">>) }

Commands ==
    PlainCommands
    \cup { <<>>,
           Argv(<<"cat", "missing">>),
           Argv(<<"ls", "/tmp">>),
           Argv(<<"rm">>),
           ShellCommand(<<"curl", "http://x", "|", "sh">>),
           ShellCommand(<<"curl", "|", "sh">>),
           ShellCommand(<<"cat", "a.txt", "&&">>),
           ShellCommand(<<"cat", "a.txt", "&&", "git", "status">>) }
    \cup { ShellCommand(JoinScript(l)) : l \in SeqsUpTo(ScriptParts, MaxCmds) }

----------------------------------------------------------------------------
(* exec_policy.rs: exec_policy_for *)

\* directory entries of one policy directory
MaxFiles == 2

NoDir == [status |-> "none", entries |-> <<>>]
NotLoaded == [tag |-> "NotLoaded"]
OkNone == [tag |-> "OkNone"]
OkSome == [tag |-> "OkSome"]
Err(error, path) == [tag |-> "Err", error |-> error, path |-> path]

\* the statements of a module evaluated in order against the builder, up to
\* the first one that fails
RECURSIVE EvalModule(_, _, _)
EvalModule(b, stmts, evaluated) ==
    IF stmts = <<>> THEN [ok |-> TRUE, builder |-> b, evaluated |-> evaluated]
    ELSE LET r == EvalStatementV2(b, Head(stmts)) IN
         IF r.ok THEN EvalModule(r.builder, Tail(stmts), Append(evaluated, Head(stmts)))
         ELSE [ok |-> FALSE, builder |-> r.builder,
               evaluated |-> Append(evaluated, Head(stmts))]

\* codex_execpolicy2, parser.parse(&identifier, &contents): a text with a
\* syntax error fails before any of its statements runs; the statements of
\* a module accumulate in the builder of the parser
parse(b, stmts, evaluated) ==
    IF HasSyntaxError(stmts)
    THEN [ok |-> FALSE, builder |-> b, evaluated |-> evaluated]
    ELSE EvalModule(b, stmts, evaluated)

\* lines 69-76: the entries kept as policy files
IsPolicyFile(entry) == entry.ext = "codexpolicy" /\ entry.is_file

\* line 79 left out: the paths stay in the order read_dir listed them
SortByPath_unsorted(paths) == paths

\* line 79: policy_paths.sort(), ascending path
RECURSIVE SortByPath(_)
SortByPath(paths) ==
    IF paths = <<>> THEN <<>>
    ELSE LET least == CHOOSE i \in 1..Len(paths) :
                          \A j \in 1..Len(paths) : paths[i].path <= paths[j].path
         IN <<paths[least]>>
            \o SortByPath([k \in 1..(Len(paths) - 1) |->
                              IF k < least THEN paths[k] ELSE paths[k + 1]])

\* lines 82-95 with a failing file skipped instead of returned as an error
RECURSIVE LoadFiles_skip_failed(_, _, _)
LoadFiles_skip_failed(files, b, evaluated) ==
    IF files = <<>>
    THEN [result |-> OkSome, builder |-> b, evaluated |-> evaluated]
    ELSE LET f == Head(files) IN
         IF ~f.readable
         THEN LoadFiles_skip_failed(Tail(files), b, evaluated)
         ELSE LET r == parse(b, f.contents, evaluated) IN
              IF ~r.ok
              THEN LoadFiles_skip_failed(Tail(files), b, r.evaluated)
              ELSE LoadFiles_skip_failed(Tail(files), r.builder, r.evaluated)

\* lines 82-95: read and parse each policy file into the one parser
RECURSIVE LoadFiles(_, _, _)
LoadFiles(files, b, evaluated) ==
    IF files = <<>>
    THEN [result |-> OkSome, builder |-> b, evaluated |-> evaluated]
    ELSE LET f == Head(files) IN
         IF ~f.readable
         THEN [result |-> Err("ReadFile", f.path), builder |-> b,
               evaluated |-> evaluated]
         ELSE LET r == parse(b, f.contents, evaluated) IN
              IF ~r.ok
              THEN [result |-> Err("ParsePolicy", f.path), builder |-> r.builder,
                    evaluated |-> r.evaluated]
              ELSE LoadFiles(Tail(files), r.builder, r.evaluated)

\* line 53 without the NotFound guard: every read_dir error gives Ok(None)
exec_policy_for_read_dir_error_is_none(enabled, dir) ==
    LET none == [result |-> OkNone, policy |-> NoPolicy,
                 builder |-> PolicyBuilderNew, evaluated |-> <<>>]
        readdir == [none EXCEPT !.result = Err("ReadDir", 0)]
    IN
    IF ~enabled THEN none
    ELSE IF dir.status # "ok" THEN none
    ELSE IF \E i \in 1..Len(dir.entries) : ~dir.entries[i].entry_ok THEN readdir
    ELSE LET policy_paths ==
                 SortByPath(SelectSeq(dir.entries, IsPolicyFile))
             l == LoadFiles(policy_paths, PolicyBuilderNew, <<>>)
         IN [result |-> l.result,
             policy |-> IF l.result = OkSome THEN parser_build(l.builder) ELSE NoPolicy,
             builder |-> l.builder,
             evaluated |-> l.evaluated]

\* result: what is returned; policy: the Policy inside Ok(Some(_)) if any
exec_policy_for(enabled, dir) ==
    LET none == [result |-> OkNone, policy |-> NoPolicy,
                 builder |-> PolicyBuilderNew, evaluated |-> <<>>]
        readdir == [none EXCEPT !.result = Err("ReadDir", 0)]
    IN
    IF ~enabled THEN none
    ELSE IF dir.status = "notfound" THEN none
    ELSE IF dir.status # "ok" THEN readdir
    ELSE IF \E i \in 1..Len(dir.entries) : ~dir.entries[i].entry_ok THEN readdir
    ELSE LET policy_paths ==
                 SortByPath(SelectSeq(dir.entries, IsPolicyFile))
             l == LoadFiles(policy_paths, PolicyBuilderNew, <<>>)
         IN [result |-> l.result,
             policy |-> IF l.result = OkSome THEN parser_build(l.builder) ELSE NoPolicy,
             builder |-> l.builder,
             evaluated |-> l.evaluated]

\* what a directory can hold under one path
Entry(path, entry_ok, ext, is_file, readable, contents) ==
    [path |-> path, entry_ok |-> entry_ok, ext |-> ext, is_file |-> is_file,
     readable |-> readable, contents |-> contents]

FileContents ==
    { <<>>,
      << [kind |-> "prefix_rule", pattern |-> Argv(<<"rm">>), decision |-> "Forbidden"] >>,
      << DefineProgramCall("rm", <<>>, <<>>, "no deletes", <<>>, <<>>),
         [kind |-> "forbid_program_regex", regex |-> "(", reason |-> "unbalanced"] >>,
      << [kind |-> "prefix_rule", pattern |-> Argv(<<"git", "status">>),
          decision |-> "Prompt"],
         [kind |-> "forbid_substrings", strings |-> << <<"a.txt">> >>] >>,
      << DefineProgramCall("rm", <<flag("-rf")>>, <<"ReadableFiles">>, NONE, <<>>, <<>>) >>,
      << DefineProgramCall("ls", <<>>, <<"ReadableFiles", "WriteableFile">>, NONE, <<>>, <<>>) >>,
      << [kind |-> "unknown"] >>,
      << DefineProgramCall("rm", <<>>, <<>>, "no deletes", <<>>, <<>>),
         [kind |-> "syntax_error"] >> }

EntriesAt(path) ==
    { Entry(path, TRUE, "codexpolicy", TRUE, TRUE, c) : c \in FileContents }
    \cup { Entry(path, TRUE, "codexpolicy", TRUE, FALSE, <<>>),   \* unreadable file
           Entry(path, TRUE, "codexpolicy", FALSE, FALSE, <<>>),  \* a directory
           Entry(path, TRUE, "txt", TRUE, TRUE, <<>>),            \* another extension
           Entry(path, FALSE, "", FALSE, FALSE, <<>>) }           \* the entry cannot be read

\* the listings read_dir can yield: entries of distinct paths, in any order
Listings ==
    { l \in SeqsUpTo(UNION {EntriesAt(p) : p \in 1..MaxFiles}, MaxFiles) :
          \A i, j \in 1..Len(l) : i # j => l[i].path # l[j].path }

Directories ==
    { [status |-> "notfound", entries |-> <<>>],
      [status |-> "denied", entries |-> <<>>] }
    \cup { [status |-> "ok", entries |-> l] : l \in Listings }

\* startup: the policy directory is loaded once
ExecPolicyFor ==
    /\ load_result = NotLoaded
    /\ phase = "parsing" /\ source = <<>>
    /\ \E enabled \in BOOLEAN, dir \in Directories :
          LET r == exec_policy_for(enabled, dir) IN
          /\ features_enabled' = enabled
          /\ policy_dir' = dir
          /\ load_result' = r.result
          /\ policy' = r.policy
          /\ builder' = r.builder
          /\ source' = r.evaluated
          /\ phase' = CASE r.result = OkSome -> "built"
                        [] r.result.tag = "Err" -> "failed"
                        [] OTHER -> "parsing"
    /\ UNCHANGED <<parser, evalVars, sharedVars, cliVars, serverVars, approvalVars, taskVars>>

----------------------------------------------------------------------------
(* Callers of the engine *)

\* threads that hold a clone of the Arc<Policy> exec_policy_for returned
Threads == {1, 2}

NoCall == [command |-> <<>>, approval_policy |-> NONE]

\* codex-execpolicy2 check has not run
NotRun == [tag |-> "NotRun"]

\* conversations the app server has open
Conversations == {1, 2}

\* no event has been handled
NoEvent == [msg |-> "None"]

\* Option<T>
OptNone == [tag |-> "None"]
OptSome(v) == [tag |-> "Some", value |-> v]

\* the task that runs apply_bespoke_event_handling for conversation c.
\* The events of one conversation are handled one after the other; between
\* two awaits of a handler the handlers of the other conversations and the
\* client requests run. pc is the await the handler stands at:
\*   "emit"        before send_server_notification(TurnCompleted), line 382
\*   "token_count" before handle_token_count, line 244
\*   "responding"  in the loop of send_response, lines 344-357
\* event is the event handled, pending the list taken from
\* pending_interrupts with next the index of the request to answer,
\* notification the TurnCompleted built from the accumulator taken, and sent
\* what the handler has sent so far
Handler(pcv, ev, pending, next, notification, sent) ==
    [pc |-> pcv, event |-> ev, pending |-> pending, next |-> next,
     notification |-> notification, sent |-> sent]

HandlerIdle == Handler("idle", NoEvent, <<>>, 1, OptNone, <<>>)

\* no undo task has run: the locals of UndoTask::run
UndoIdle == [pc |-> "idle", cancelled |-> FALSE, items |-> <<>>, idx |-> 0, restore_result |-> "None", restore_calls |-> <<>>, completed |-> [msg |-> "UndoCompleted", success |-> FALSE, message |-> "None", commit_id |-> "none"]]

\* no ghost snapshot task has run
GhostIdle == [pc |-> "idle", cancelled |-> FALSE, token |-> 0, result |-> "None", recorded |-> FALSE, outcome |-> "None", mark_result |-> "None"]

\* a gate nobody has marked ready
GateNew == [ready |-> FALSE, marked |-> <<>>]

----------------------------------------------------------------------------
(* The compile pass and the evaluations *)

Init ==
    /\ phase = "parsing"
    /\ parser = "codex_execpolicy2"
    /\ source = <<>>
    /\ builder = PolicyBuilderNew
    /\ policy = NoPolicy
    /\ command = <<>>
    /\ approval_policy = NONE
    /\ commands = <<>>
    /\ evaluation = NoMatch
    /\ requirement = NoRequirement
    /\ features_enabled = FALSE
    /\ policy_dir = NoDir
    /\ load_result = NotLoaded
    /\ pc = [t \in Threads |-> "idle"]
    /\ calls = [t \in Threads |-> NoCall]
    /\ inner = [t \in Threads |-> <<>>]
    /\ overlapped = [t \in Threads |-> FALSE]
    /\ history = <<>>
    /\ cli_policies = <<>>
    /\ cli_args = <<>>
    /\ cli_result = NotRun
    /\ turn_state = <<>>
    /\ pending_interrupts = [c \in Conversations |-> <<>>]
    /\ event = NoEvent
    /\ outgoing = <<>>
    /\ handlers = [c \in Conversations |-> HandlerIdle]
    /\ delivered = 0
    /\ callbacks = <<>>
    /\ submitted = <<>>
    /\ session_history = <<>>
    /\ undo = UndoIdle
    /\ undo_events = <<>>
    /\ ghost = GhostIdle
    /\ background_events = <<>>
    /\ gate = GateNew

\* policy_parser.rs lines 321-326: the source is handed to the parser of
\* codex_execpolicy instead
PolicyParserNew ==
    /\ phase = "parsing" /\ source = <<>>
    /\ parser = "codex_execpolicy2"
    /\ parser' = "codex_execpolicy"
    /\ UNCHANGED <<phase, source, builder, policy, evalVars, loadVars, sharedVars, cliVars, serverVars, approvalVars, taskVars>>

\* line 331: the text is not a module; no statement of it runs
SyntaxError ==
    /\ phase = "parsing" /\ source = <<>>
    /\ \E stmt \in SyntaxErrors : source' = <<stmt>>
    /\ phase' = "failed"
    /\ UNCHANGED <<parser, builder, policy, evalVars, loadVars, sharedVars, cliVars, serverVars, approvalVars, taskVars>>

\* the next statement of the module is evaluated; an Err ends the pass
Statement(call) ==
    /\ phase = "parsing"
    /\ Len(source) < MaxStmts
    /\ LET r == IF parser = "codex_execpolicy" THEN EvalStatement(builder, call)
                ELSE EvalStatementV2(builder, call)
       IN
       /\ source' = Append(source, call)
       /\ builder' = r.builder
       /\ phase' = IF r.ok THEN "parsing" ELSE "failed"
    /\ UNCHANGED <<parser, policy, evalVars, loadVars, sharedVars, cliVars, serverVars, approvalVars, taskVars>>

DefineProgram == \E call \in DefineProgramCalls : Statement(call)

ForbidSubstrings == \E call \in ForbidSubstringsCalls : Statement(call)

ForbidProgramRegex == \E call \in ForbidProgramRegexCalls : Statement(call)

PrefixRule == \E call \in PrefixRuleCalls : Statement(call)

UnknownStatement == \E call \in UnknownStatements : Statement(call)

Assignment == \E call \in Assignments : Statement(call)

\* the module is exhausted: the builder is frozen into the Policy.
\* policy_parser.rs lines 360-361 return the Err of build; the build of
\* codex_execpolicy2 has no Err
Build ==
    /\ phase = "parsing"
    /\ LET r == IF parser = "codex_execpolicy" THEN build(builder)
                ELSE [ok |-> TRUE, policy |-> parser_build(builder)]
       IN
       /\ policy' = r.policy
       /\ phase' = IF r.ok THEN "built" ELSE "failed"
    /\ UNCHANGED <<parser, source, builder, evalVars, loadVars, sharedVars, cliVars, serverVars, approvalVars, taskVars>>

\* evaluate_with_policy takes a &codex_execpolicy2::Policy
EvaluateWithPolicy ==
    /\ phase = "built"
    /\ parser = "codex_execpolicy2"
    /\ \E cmd \in Commands, mode \in AskForApproval :
          LET r == evaluate_with_policy(policy, cmd, mode) IN
          /\ command' = cmd
          /\ approval_policy' = mode
          /\ commands' = r.commands
          /\ evaluation' = r.evaluation
          /\ requirement' = r.requirement
    /\ UNCHANGED <<parser, phase, source, builder, policy, loadVars, sharedVars, cliVars, serverVars, approvalVars, taskVars>>

Next ==
    \/ DefineProgram
    \/ ForbidSubstrings
    \/ ForbidProgramRegex
    \/ PrefixRule
    \/ UnknownStatement
    \/ Assignment
    \/ PolicyParserNew
    \/ SyntaxError
    \/ Build
    \/ EvaluateWithPolicy

Spec == Init /\ [][Next]_vars

\* startup of the engine from a policy directory
NextLoad == ExecPolicyFor

SpecLoad == Init /\ [][NextLoad]_vars

----------------------------------------------------------------------------
(* Evaluations on one shared Policy (exec_policy.rs).                      *)
(* exec_policy_for hands out Arc<Policy>; evaluate_with_policy borrows it  *)
(* as &Policy. A call is two steps: line 112 works on the argv alone, line *)
(* 113 reads the Policy; the calls of different threads interleave.        *)

\* the sources the shared Policy is compiled from
SharedSources ==
    { << DefineProgramCall("rm", <<>>, <<>>, "no deletes", <<>>, <<>>) >>,
      << [kind |-> "prefix_rule", pattern |-> Argv(<<"git", "status">>),
          decision |-> "Prompt"],
         DefineProgramCall("cat", <<flag("-f")>>, <<"ReadableFiles">>, NONE,
                           <<Argv(<<"a.txt">>)>>, <<Argv(<<"missing">>)>>) >>,
      << [kind |-> "forbid_substrings", strings |-> << <<"a.txt">> >>] >>,
      << [kind |-> "prefix_rule", pattern |-> Argv(<<"git", "status">>),
          decision |-> "Prompt"],
         [kind |-> "forbid_program_regex", regex |-> "(", reason |-> "unbalanced"] >> }

SharedCommands ==
    { Argv(<<"rm", "-rf", "/tmp">>),
      Argv(<<"git", "status">>),
      ShellCommand(<<"cat", "a.txt", "&&", "rm", "-rf", "/tmp">>) }

SharedModes == {"OnRequest", "Never"}

\* exec_policy.rs lines 81-97 for one policy file: parser.parse of the
\* whole source, then parser.build()
Compile ==
    /\ phase = "parsing" /\ source = <<>>
    /\ \E src \in SharedSources :
          LET r == parse(PolicyBuilderNew, src, <<>>) IN
          /\ source' = r.evaluated
          /\ builder' = r.builder
          /\ phase' = IF r.ok THEN "built" ELSE "failed"
          /\ policy' = IF r.ok THEN parser_build(r.builder) ELSE NoPolicy
    /\ UNCHANGED <<parser, evalVars, loadVars, sharedVars, cliVars, serverVars, approvalVars, taskVars>>

\* the result of a call that returned, pushed on the two-call history
Returned(t, e, r) ==
    LET done == [command |-> calls[t].command,
                 approval_policy |-> calls[t].approval_policy,
                 evaluation |-> e, requirement |-> r,
                 overlapped |-> overlapped[t]]
    IN IF Len(history) < 2 THEN Append(history, done) ELSE <<history[2], done>>

\* line 112: a thread enters evaluate_with_policy and decomposes its argv
EvaluateBegin(t) ==
    /\ phase = "built"
    /\ pc[t] = "idle"
    /\ \E cmd \in SharedCommands, mode \in SharedModes :
          /\ calls' = [calls EXCEPT ![t] = [command |-> cmd, approval_policy |-> mode]]
          /\ inner' = [inner EXCEPT ![t] = InnerCommands(cmd)]
    /\ pc' = [pc EXCEPT ![t] = "running"]
    /\ overlapped' = [u \in Threads |->
                         IF \E v \in Threads \ {t} : pc[v] = "running"
                         THEN (u = t \/ pc[u] = "running" \/ overlapped[u])
                         ELSE overlapped[u]]
    /\ UNCHANGED <<parser, phase, source, builder, policy, evalVars, loadVars, history, cliVars, serverVars, approvalVars, taskVars>>

\* lines 113-133: check_multiple on the shared Policy, the mapping, return
EvaluateFinish(t) ==
    /\ pc[t] = "running"
    /\ LET e == check_multiple(policy, inner[t]) IN
       history' = Returned(t, e, map_to_requirement(e, calls[t].approval_policy))
    /\ pc' = [pc EXCEPT ![t] = "idle"]
    /\ calls' = [calls EXCEPT ![t] = NoCall]
    /\ inner' = [inner EXCEPT ![t] = <<>>]
    /\ overlapped' = [overlapped EXCEPT ![t] = FALSE]
    /\ UNCHANGED <<parser, phase, source, builder, policy, evalVars, loadVars, cliVars, serverVars, approvalVars, taskVars>>

NextShared ==
    \/ Compile
    \/ \E t \in Threads : EvaluateBegin(t)
    \/ \E t \in Threads : EvaluateFinish(t)

SpecShared == Init /\ [][NextShared]_vars

----------------------------------------------------------------------------
(* codex-execpolicy2 check (execpolicy2/src/main.rs) *)

\* a file named by --policies
CliFile(readable, contents) == [readable |-> readable, contents |-> contents]

CliFiles ==
    { CliFile(TRUE, c) : c \in FileContents } \cup { CliFile(FALSE, <<>>) }

\* --policies is required: at least one path, in the order given
CliPolicyLists == SeqsUpTo(CliFiles, MaxFiles) \ { <<>> }

\* COMMAND is required: at least one token
CliCommands == Commands \ { <<>> }

\* load_policies: every file read and parsed into one parser, in the order
\* of the command line; failed is the index of the file that stopped it
RECURSIVE load_policies(_, _, _)
load_policies(policy_paths, b, index) ==
    IF policy_paths = <<>>
    THEN [ok |-> TRUE, policy |-> parser_build(b), failed |-> 0]
    ELSE LET f == Head(policy_paths) IN
         IF ~f.readable THEN [ok |-> FALSE, policy |-> NoPolicy, failed |-> index]
         ELSE LET r == parse(b, f.contents, <<>>) IN
              IF ~r.ok THEN [ok |-> FALSE, policy |-> NoPolicy, failed |-> index]
              ELSE load_policies(Tail(policy_paths), r.builder, index + 1)

\* serde_json::to_string_pretty(&eval): the Evaluation as a JSON value
to_string_pretty(eval) ==
    IF eval.tag = "NoMatch" THEN [json |-> "noMatch"]
    ELSE [json |-> "match",
          decision |-> CASE eval.decision = "Allow" -> "allow"
                         [] eval.decision = "Prompt" -> "prompt"
                         [] eval.decision = "Forbidden" -> "forbidden",
          reason |-> eval.reason]

\* cmd_check: load the policies, check the tokens as one command, print
cmd_check(policies, args) ==
    LET l == load_policies(policies, PolicyBuilderNew, 1) IN
    IF ~l.ok THEN [tag |-> "Err", failed |-> l.failed]
    ELSE [tag |-> "Printed", stdout |-> to_string_pretty(check(l.policy, args))]

\* one run of the front end
CmdCheck ==
    /\ cli_result = NotRun
    /\ \E policies \in CliPolicyLists, args \in CliCommands :
          /\ cli_policies' = policies
          /\ cli_args' = args
          /\ cli_result' = cmd_check(policies, args)
    /\ UNCHANGED <<parser, phase, source, builder, policy, evalVars, loadVars, sharedVars, serverVars, approvalVars, taskVars>>

NextCli == CmdCheck

SpecCli == Init /\ [][NextCli]_vars

----------------------------------------------------------------------------
(* app-server: bespoke_event_handling.rs, the accumulator of a turn *)

\* interrupt requests that may be waiting at one time, all conversations together
MaxPending == 2

\* events and interrupt requests delivered in one run
MaxEvents == 4

EventIds == {"ev1"}

\* TurnKey = (ConversationId, String): the turns that events are delivered for
TurnKeys == { <<c, id>> : c \in Conversations, id \in EventIds }

\* a 64-bit integer as its two 32-bit halves, each written as the i32 with
\* the same bits: the value is hi * 2^32 + (lo mod 2^32)
I64(hi, lo) == [hi |-> hi, lo |-> lo]

\* i32::MIN, the bit pattern 0x8000_0000
I32Min == (-2147483647) - 1

\* an i32 widened to 64 bits (sign extension)
FromI32(v) == I64(IF v < 0 THEN -1 ELSE 0, v)

\* codex_core::protocol::TokenUsage
TokenUsage(input, cached, output) ==
    [input_tokens |-> input, cached_input_tokens |-> cached, output_tokens |-> output,
     reasoning_output_tokens |-> I64(0, 0), total_tokens |-> I64(0, 0)]

\* sample_usage_info of the tests (10, 2, 5), and a usage whose input count
\* is 2^31 = 2147483648
TokenUsages ==
    { TokenUsage(I64(0, 10), I64(0, 2), I64(0, 5)),
      TokenUsage(I64(0, I32Min), I64(0, 0), I64(0, 7)) }

ErrorMessages == {"boom"}

AbortReasons == {"Interrupted", "Replaced"}

ApiVersions == {"V1", "V2"}

\* the id of the client request that waits at position i of conversation c:
\* the ids of the waiting requests are distinct
RequestId(c, i) == <<c, i>>

\* TurnAccum::default()
TurnAccumDefault ==
    [last_total_token_usage |-> OptNone, last_error_message |-> OptNone]

\* HashMap: the value under the key, or the default; insert; remove
MapGetOrDefault(map, key) == IF key \in DOMAIN map THEN map[key] ELSE TurnAccumDefault
MapInsert(map, key, value) ==
    [k \in DOMAIN map \cup {key} |-> IF k = key THEN value ELSE map[k]]
MapRemove(map, key) == [k \in DOMAIN map \ {key} |-> map[k]]

\* take_turn_accum: map.remove(&key).unwrap_or_default()
take_turn_accum(map, conversation_id, event_id) ==
    LET key == <<conversation_id, event_id>>
        entry == MapGetOrDefault(map, key)
    IN [map |-> MapRemove(map, key),
        usage |-> entry.last_total_token_usage,
        error |-> entry.last_error_message]

\* `x as i32`: the low 32 bits of the 64-bit integer
AsI32(x) == x.lo

\* map_usage_to_v2
map_usage_to_v2(u) ==
    IF u.tag = "Some"
    THEN [input_tokens |-> AsI32(u.value.input_tokens),
          cached_input_tokens |-> AsI32(u.value.cached_input_tokens),
          output_tokens |-> AsI32(u.value.output_tokens)]
    ELSE [input_tokens |-> 0, cached_input_tokens |-> 0, output_tokens |-> 0]

\* emit_turn_completed_with_status: the notification it sends
emit_turn_completed_with_status(event_id, status, usage, error) ==
    [notification |-> "TurnCompleted",
     turn |-> [id |-> event_id, status |-> status, error |-> error],
     usage |-> usage]

\* handle_turn_complete reporting Completed whatever was recorded
handle_turn_complete_ignores_error(map, conversation_id, event_id) ==
    LET taken == take_turn_accum(map, conversation_id, event_id)
        usage == map_usage_to_v2(taken.usage)
    IN [map |-> taken.map,
        sent |-> <<emit_turn_completed_with_status(event_id, "Completed", usage, OptNone)>>]

\* handle_turn_complete: [map, sent]
handle_turn_complete(map, conversation_id, event_id) ==
    LET taken == take_turn_accum(map, conversation_id, event_id)
        usage == map_usage_to_v2(taken.usage)
        status == IF taken.error.tag = "Some" THEN "Failed" ELSE "Completed"
        error == IF taken.error.tag = "Some"
                 THEN OptSome([message |-> taken.error.value]) ELSE OptNone
    IN [map |-> taken.map,
        sent |-> <<emit_turn_completed_with_status(event_id, status, usage, error)>>]

\* handle_turn_interrupted deriving the status from the recorded error the
\* way handle_turn_complete does
handle_turn_interrupted_fails_on_error(map, conversation_id, event_id) ==
    LET taken == take_turn_accum(map, conversation_id, event_id)
        status == IF taken.error.tag = "Some" THEN "Failed" ELSE "Interrupted"
        error == IF taken.error.tag = "Some"
                 THEN OptSome([message |-> taken.error.value]) ELSE OptNone
        usage == map_usage_to_v2(taken.usage)
    IN [map |-> taken.map,
        sent |-> <<emit_turn_completed_with_status(event_id, status, usage, error)>>]

\* handle_turn_interrupted: [map, sent]
handle_turn_interrupted(map, conversation_id, event_id) ==
    LET taken == take_turn_accum(map, conversation_id, event_id)
        error == IF taken.error.tag = "Some"
                 THEN OptSome([message |-> taken.error.value]) ELSE OptNone
        usage == map_usage_to_v2(taken.usage)
    IN [map |-> taken.map,
        sent |-> <<emit_turn_completed_with_status(event_id, "Interrupted", usage, error)>>]

\* handle_error: map.entry(key).or_default().last_error_message = Some(message)
handle_error(map, conversation_id, event_id, message) ==
    LET key == <<conversation_id, event_id>> IN
    MapInsert(map, key,
              [MapGetOrDefault(map, key) EXCEPT !.last_error_message = OptSome(message)])

\* handle_token_count
handle_token_count(map, conversation_id, event_id, info) ==
    LET key == <<conversation_id, event_id>> IN
    MapInsert(map, key,
              [MapGetOrDefault(map, key) EXCEPT
                   !.last_total_token_usage = OptSome(info.total_token_usage)])

\* EventMsg::TaskComplete, up to the await of line 402: take_turn_accum
\* locks TURN_STATE, removes the entry and unlocks (lines 393, 72-81)
TaskComplete ==
    \E key \in TurnKeys :
        LET r == handle_turn_complete(turn_state, key[1], key[2])
            ev == [msg |-> "TaskComplete", conversation_id |-> key[1], id |-> key[2]]
        IN
        /\ handlers[key[1]].pc = "idle"
        /\ turn_state' = r.map
        /\ handlers' = [handlers EXCEPT ![key[1]] =
                            Handler("emit", ev, <<>>, 1, OptSome(r.sent[1]), <<>>)]
        /\ delivered < MaxEvents
        /\ delivered' = delivered + 1
        /\ UNCHANGED <<pending_interrupts, event, outgoing, engineVars, approvalVars, taskVars>>

\* lines 382-384: the TurnCompleted notification is sent and the handler of
\* TaskComplete or TurnAborted returns
EmitTurnCompleted ==
    \E c \in Conversations :
        /\ handlers[c].pc = "emit"
        /\ event' = handlers[c].event
        /\ outgoing' = Append(handlers[c].sent, handlers[c].notification.value)
        /\ handlers' = [handlers EXCEPT ![c] = HandlerIdle]
        /\ UNCHANGED <<delivered, turn_state, pending_interrupts, engineVars, approvalVars, taskVars>>

\* EventMsg::TokenCount, up to its first await that another task can run
\* at: with rate_limits the notification is sent (lines 234-242) and, when
\* there is an info too, handle_token_count is still to run; without
\* rate_limits handle_token_count runs at once
TokenCount ==
    \E key \in TurnKeys,
       rate_limits \in {OptNone, OptSome("rate_limits")},
       info \in {OptNone} \cup {OptSome([total_token_usage |-> u]) : u \in TokenUsages} :
        LET ev == [msg |-> "TokenCount", conversation_id |-> key[1], id |-> key[2],
                   rate_limits |-> rate_limits, info |-> info]
            sent == IF rate_limits.tag = "Some"
                    THEN << [notification |-> "AccountRateLimitsUpdated",
                             rate_limits |-> rate_limits.value] >>
                    ELSE <<>>
        IN
        /\ handlers[key[1]].pc = "idle"
        /\ IF rate_limits.tag = "Some" /\ info.tag = "Some"
           THEN /\ handlers' = [handlers EXCEPT ![key[1]] =
                                    Handler("token_count", ev, <<>>, 1, OptNone, sent)]
                /\ UNCHANGED <<turn_state, event, outgoing>>
           ELSE /\ event' = ev
                /\ outgoing' = sent
                /\ turn_state' = IF info.tag = "Some"
                                 THEN handle_token_count(turn_state, key[1], key[2], info.value)
                                 ELSE turn_state
                /\ UNCHANGED handlers
        /\ delivered < MaxEvents
        /\ delivered' = delivered + 1
        /\ UNCHANGED <<pending_interrupts, engineVars, approvalVars, taskVars>>

\* lines 243-245 after the notification went out: handle_token_count locks
\* TURN_STATE and stores the usage; the handler returns
TokenCountRecord ==
    \E c \in Conversations :
        LET ev == handlers[c].event IN
        /\ handlers[c].pc = "token_count"
        /\ turn_state' = handle_token_count(turn_state, c, ev.id, ev.info.value)
        /\ event' = ev
        /\ outgoing' = handlers[c].sent
        /\ handlers' = [handlers EXCEPT ![c] = HandlerIdle]
        /\ UNCHANGED <<delivered, pending_interrupts, engineVars, approvalVars, taskVars>>

\* EventMsg::Error
Error ==
    \E key \in TurnKeys, message \in ErrorMessages :
        /\ handlers[key[1]].pc = "idle"
        /\ event' = [msg |-> "Error", conversation_id |-> key[1], id |-> key[2],
                     message |-> message]
        /\ turn_state' = handle_error(turn_state, key[1], key[2], message)
        /\ outgoing' = <<>>
        /\ delivered < MaxEvents
        /\ delivered' = delivered + 1
        /\ UNCHANGED <<handlers, pending_interrupts, engineVars, approvalVars, taskVars>>

\* the reply to one pending interrupt request
InterruptResponse(rid, ver, reason) ==
    IF ver = "V1"
    THEN [response |-> "InterruptConversationResponse", id |-> rid, abort_reason |-> reason]
    ELSE [response |-> "TurnInterruptResponse", id |-> rid]

\* lines 339-342 reading the pending list without taking it out of the map
TurnAborted_keeps_pending ==
    \E key \in TurnKeys, reason \in AbortReasons :
        LET ev == [msg |-> "TurnAborted", conversation_id |-> key[1], id |-> key[2],
                   reason |-> reason]
        IN
        /\ handlers[key[1]].pc = "idle"
        /\ handlers' = [handlers EXCEPT ![key[1]] =
                            Handler("responding", ev, pending_interrupts[key[1]], 1,
                                    OptNone, <<>>)]
        /\ delivered < MaxEvents
        /\ delivered' = delivered + 1
        /\ UNCHANGED <<pending_interrupts, turn_state, event, outgoing, engineVars, approvalVars, taskVars>>

\* EventMsg::TurnAborted, lines 339-342: the pending interrupt requests of
\* the conversation are taken out of the map under its lock
TurnAborted ==
    \E key \in TurnKeys, reason \in AbortReasons :
        LET ev == [msg |-> "TurnAborted", conversation_id |-> key[1], id |-> key[2],
                   reason |-> reason]
        IN
        /\ handlers[key[1]].pc = "idle"
        /\ pending_interrupts' = [pending_interrupts EXCEPT ![key[1]] = <<>>]
        /\ handlers' = [handlers EXCEPT ![key[1]] =
                            Handler("responding", ev, pending_interrupts[key[1]], 1,
                                    OptNone, <<>>)]
        /\ delivered < MaxEvents
        /\ delivered' = delivered + 1
        /\ UNCHANGED <<turn_state, event, outgoing, engineVars, approvalVars, taskVars>>

\* lines 343-358: one turn of the loop, the reply to the next request of the
\* list taken
SendResponse ==
    \E c \in Conversations :
        LET h == handlers[c] IN
        /\ h.pc = "responding"
        /\ h.next <= Len(h.pending)
        /\ handlers' = [handlers EXCEPT ![c] =
                            [h EXCEPT !.next = h.next + 1,
                                      !.sent = Append(h.sent,
                                          InterruptResponse(h.pending[h.next].rid,
                                                            h.pending[h.next].ver,
                                                            h.event.reason))]]
        /\ UNCHANGED <<delivered, turn_state, pending_interrupts, event, outgoing, engineVars, approvalVars, taskVars>>

\* line 360 up to the await of line 416: every request of the list is
\* answered; handle_turn_interrupted takes the accumulator of the turn
TurnInterrupted ==
    \E c \in Conversations :
        LET h == handlers[c]
            r == handle_turn_interrupted(turn_state, c, h.event.id)
        IN
        /\ h.pc = "responding"
        /\ h.next > Len(h.pending)
        /\ turn_state' = r.map
        /\ handlers' = [handlers EXCEPT ![c] =
                            [h EXCEPT !.pc = "emit", !.notification = OptSome(r.sent[1])]]
        /\ UNCHANGED <<delivered, pending_interrupts, event, outgoing, engineVars, approvalVars, taskVars>>

\* the requests of conversation c that wait for a reply: those in the map
\* and those a TurnAborted handler took and has not answered yet
Unanswered(c) ==
    pending_interrupts[c]
    \o SubSeq(handlers[c].pending, handlers[c].next, Len(handlers[c].pending))

\* a client asks to interrupt a conversation: the request waits for the
\* TurnAborted event. Its id is one no waiting request has
InterruptRequest ==
    \E c \in Conversations, ver \in ApiVersions :
        LET waiting == Len(Unanswered(1)) + Len(Unanswered(2))
            used == {Unanswered(c)[i].rid : i \in 1..Len(Unanswered(c))}
            free == {i \in 1..MaxPending : RequestId(c, i) \notin used}
            rid == RequestId(c, CHOOSE i \in free : \A j \in free : i <= j)
        IN
        /\ waiting < MaxPending
        /\ pending_interrupts' =
               [pending_interrupts EXCEPT ![c] = Append(@, [rid |-> rid, ver |-> ver])]
        /\ delivered < MaxEvents
        /\ delivered' = delivered + 1
        /\ UNCHANGED <<turn_state, handlers, event, outgoing, engineVars, approvalVars, taskVars>>

NextTurns ==
    \/ TaskComplete
    \/ EmitTurnCompleted
    \/ TokenCount
    \/ TokenCountRecord
    \/ Error
    \/ TurnAborted
    \/ SendResponse
    \/ TurnInterrupted
    \/ InterruptRequest

SpecTurns == Init /\ [][NextTurns]_vars

----------------------------------------------------------------------------
(* app-server: bespoke_event_handling.rs, approval requests.               *)
(* An approval request event is forwarded to the client with send_request  *)
(* and a task is spawned that waits on the oneshot receiver of the reply   *)
(* and submits the decision to the conversation.                           *)

\* approval requests forwarded in one run
MaxRequests == 2

ReviewDecisions == {"Approved", "ApprovedForSession", "Denied", "Abort"}

ApprovalDecisions == {"Accept", "Decline", "Cancel"}

\* a JSON object with an optional "decision" and an optional "accept_settings"
JsonObject(decision, accept_settings) == [decision |-> decision, accept_settings |-> accept_settings]

\* what a client may send back: well-formed V1 and V2 responses, and an
\* object without a decision
JsonValues ==
    { JsonObject(OptSome("Approved"), OptNone),
      JsonObject(OptSome("Accept"), OptNone),
      JsonObject(OptSome("Accept"), OptSome([for_session |-> TRUE])),
      JsonObject(OptSome("Accept"), OptSome([for_session |-> FALSE])),
      JsonObject(OptSome("Decline"), OptSome([for_session |-> TRUE])),
      JsonObject(OptSome("Cancel"), OptSome([for_session |-> TRUE])),
      JsonObject(OptNone, OptNone) }

\* Result<T, E> of a receiver and of from_value
Ok(v) == [tag |-> "Ok", value |-> v]
RecvErr(e) == [tag |-> "Err", error |-> e]

\* the receiver of a request the client has not answered
Waiting == [tag |-> "Waiting"]

\* a task that has run to its end: `response` is what `receiver.await` gave it
Finished(response) == [tag |-> "Finished", response |-> response]

\* serde_json::from_value::<ApplyPatchApprovalResponse> and
\* ::<ExecCommandApprovalResponse>: { decision: ReviewDecision }
from_value_ReviewDecisionResponse(value) ==
    IF value.decision.tag = "Some" /\ value.decision.value \in ReviewDecisions
    THEN Ok([decision |-> value.decision.value])
    ELSE RecvErr("invalid type")

\* serde_json::from_value::<CommandExecutionRequestApprovalResponse>:
\* { decision: ApprovalDecision, accept_settings: Option<..> }
from_value_CommandExecutionRequestApprovalResponse(value) ==
    IF value.decision.tag = "Some" /\ value.decision.value \in ApprovalDecisions
    THEN Ok([decision |-> value.decision.value, accept_settings |-> value.accept_settings])
    ELSE RecvErr("invalid type")

\* Op::PatchApproval / Op::ExecApproval
Op(type, id, decision) == [op |-> type, id |-> id, decision |-> decision]

\* on_patch_approval_response: the Ops it submits, given what the receiver
\* resolved to
on_patch_approval_response(event_id, response) ==
    IF response.tag = "Err"
    THEN << Op("PatchApproval", event_id, "Denied") >>
    ELSE LET parsed == from_value_ReviewDecisionResponse(response.value)
             decision == IF parsed.tag = "Ok" THEN parsed.value.decision ELSE "Denied"
         IN << Op("PatchApproval", event_id, decision) >>

\* on_exec_approval_response approving what it cannot deserialize
on_exec_approval_response_approves_unparsed(event_id, response) ==
    IF response.tag = "Err"
    THEN <<>>
    ELSE LET parsed == from_value_ReviewDecisionResponse(response.value)
             decision == IF parsed.tag = "Ok" THEN parsed.value.decision ELSE "Approved"
         IN << Op("ExecApproval", event_id, decision) >>

\* on_exec_approval_response
on_exec_approval_response(event_id, response) ==
    IF response.tag = "Err"
    THEN <<>>
    ELSE LET parsed == from_value_ReviewDecisionResponse(response.value)
             decision == IF parsed.tag = "Ok" THEN parsed.value.decision ELSE "Denied"
         IN << Op("ExecApproval", event_id, decision) >>

\* the match of on_command_execution_request_approval_response with the
\* guard on for_session left out
MapApprovalDecision_any_settings(decision, accept_settings) ==
    CASE decision = "Accept" /\ accept_settings.tag = "Some" -> "ApprovedForSession"
      [] decision = "Accept" -> "Approved"
      [] decision = "Decline" -> "Denied"
      [] decision = "Cancel" -> "Abort"

\* the match on (decision, accept_settings) of
\* on_command_execution_request_approval_response
MapApprovalDecision(decision, accept_settings) ==
    CASE decision = "Accept" /\ accept_settings.tag = "Some" /\ accept_settings.value.for_session
             -> "ApprovedForSession"
      [] decision = "Accept" -> "Approved"
      [] decision = "Decline" -> "Denied"
      [] decision = "Cancel" -> "Abort"

\* on_command_execution_request_approval_response
on_command_execution_request_approval_response(event_id, response) ==
    IF response.tag = "Err"
    THEN <<>>
    ELSE LET parsed == from_value_CommandExecutionRequestApprovalResponse(response.value)
             r == IF parsed.tag = "Ok" THEN parsed.value
                  ELSE [decision |-> "Decline", accept_settings |-> OptNone]
         IN << Op("ExecApproval", event_id, MapApprovalDecision(r.decision, r.accept_settings)) >>

\* the task spawned for a forwarded request
Callback(key, handler) == [conversation_id |-> key[1], event_id |-> key[2], handler |-> handler, receiver |-> Waiting]

\* EventMsg::ApplyPatchApprovalRequest
ApplyPatchApprovalRequest ==
    \E key \in TurnKeys :
        /\ Len(callbacks) < MaxRequests
        /\ event' = [msg |-> "ApplyPatchApprovalRequest", conversation_id |-> key[1],
                     id |-> key[2]]
        /\ outgoing' = << [request |-> "ApplyPatchApproval", conversation_id |-> key[1]] >>
        /\ callbacks' = Append(callbacks, Callback(key, "on_patch_approval_response"))
        /\ UNCHANGED <<turn_state, pending_interrupts, handlers, delivered, submitted, engineVars, taskVars>>

\* EventMsg::ExecApprovalRequest
ExecApprovalRequest ==
    \E key \in TurnKeys, api_version \in ApiVersions :
        /\ Len(callbacks) < MaxRequests
        /\ event' = [msg |-> "ExecApprovalRequest", conversation_id |-> key[1],
                     id |-> key[2]]
        /\ outgoing' = IF api_version = "V1"
                       THEN << [request |-> "ExecCommandApproval",
                                conversation_id |-> key[1]] >>
                       ELSE << [request |-> "CommandExecutionRequestApproval",
                                conversation_id |-> key[1]] >>
        /\ callbacks' =
               Append(callbacks,
                      Callback(key, IF api_version = "V1"
                                    THEN "on_exec_approval_response"
                                    ELSE "on_command_execution_request_approval_response"))
        /\ UNCHANGED <<turn_state, pending_interrupts, handlers, delivered, submitted, engineVars, taskVars>>

\* the client answers a request: the sender half resolves the receiver
ClientResponse ==
    \E i \in 1..Len(callbacks), value \in JsonValues :
        /\ callbacks[i].receiver = Waiting
        /\ callbacks' = [callbacks EXCEPT ![i].receiver = Ok(value)]
        /\ UNCHANGED <<submitted, serverVars, engineVars, taskVars>>

\* the sender half is dropped without a reply (the connection went away)
ChannelClosed ==
    \E i \in 1..Len(callbacks) :
        /\ callbacks[i].receiver = Waiting
        /\ callbacks' = [callbacks EXCEPT ![i].receiver = RecvErr("RecvError")]
        /\ UNCHANGED <<submitted, serverVars, engineVars, taskVars>>

\* what the spawned task of a callback submits once `receiver.await` returns
HandlerOps(cb) ==
    CASE cb.handler = "on_patch_approval_response"
             -> on_patch_approval_response(cb.event_id, cb.receiver)
      [] cb.handler = "on_exec_approval_response"
             -> on_exec_approval_response(cb.event_id, cb.receiver)
      [] cb.handler = "on_command_execution_request_approval_response"
             -> on_command_execution_request_approval_response(cb.event_id, cb.receiver)

\* a spawned task runs from `receiver.await` to its end
OnApprovalResponse ==
    \E i \in 1..Len(callbacks) :
        LET cb == callbacks[i]
            ops == HandlerOps(cb)
        IN
        /\ cb.receiver.tag \in {"Ok", "Err"}
        /\ submitted' = submitted \o
               [k \in 1..Len(ops) |-> [conversation_id |-> cb.conversation_id] @@ ops[k]]
        /\ callbacks' = [callbacks EXCEPT ![i].receiver = Finished(cb.receiver)]
        /\ UNCHANGED <<serverVars, engineVars, taskVars>>

NextApprovals ==
    \/ ApplyPatchApprovalRequest
    \/ ExecApprovalRequest
    \/ ClientResponse
    \/ ChannelClosed
    \/ OnApprovalResponse

SpecApprovals == Init /\ [][NextApprovals]_vars

----------------------------------------------------------------------------
(* core/src/tasks/undo.rs: UndoTask::run.                                  *)
(* The run is cut at its await points: send_event(UndoStarted), the        *)
(* is_cancelled check, clone_history, the search for the snapshot up to    *)
(* spawn_blocking, the end of the restore up to replace_history, and each  *)
(* send_event(UndoCompleted). Other tasks of the session record items      *)
(* while the run is between two of its steps.                              *)

\* items the session history holds at most
MaxItems == 3

\* ids of ghost commits
Commits == {"c1", "c2"}

\* ResponseItem: a message, or ResponseItem::GhostSnapshot { ghost_commit }
Message == [type |-> "Message", ghost_commit |-> "none"]
GhostSnapshot(ghost_commit) == [type |-> "GhostSnapshot", ghost_commit |-> ghost_commit]

ResponseItems == {Message} \cup { GhostSnapshot(c) : c \in Commits }

UndoStartedEvent == [msg |-> "UndoStarted", message |-> "Undo in progress..."]

UndoCompletedEvent(success, message, commit_id) == [msg |-> "UndoCompleted", success |-> success, message |-> message, commit_id |-> commit_id]

\* items.iter().enumerate().rev().find_map(GhostSnapshot): the highest index
\* of a GhostSnapshot item, 0 for None
LastGhostSnapshot(items) ==
    LET found == { i \in 1..Len(items) : items[i].type = "GhostSnapshot" } IN
    IF found = {} THEN 0 ELSE CHOOSE i \in found : \A j \in found : j <= i

\* Vec::remove(idx)
VecRemove(items, idx) == [i \in 1..(Len(items) - 1) |-> IF i < idx THEN items[i] ELSE items[i + 1]]

\* results of spawn_blocking(restore_ghost_commit).await:
\* Ok(Ok(())), Ok(Err(err)), Err(JoinError)
RestoreResults == {"Ok", "Err", "Panic"}

\* run is called: UndoStarted is sent (lines 178-185)
UndoStart ==
    /\ undo.pc \in {"idle", "done"}
    /\ undo' = [UndoIdle EXCEPT !.pc = "started"]
    /\ undo_events' = << UndoStartedEvent >>
    /\ UNCHANGED <<session_history, ghost, gate, background_events, serverVars, engineVars, approvalVars>>

\* the owner of the task cancels its token
UndoCancel ==
    /\ undo.pc \in {"started", "cancelling", "checked", "cloned", "no_snapshot",
                  "restoring", "completing"}
    /\ ~undo.cancelled
    /\ undo' = [undo EXCEPT !.cancelled = TRUE]
    /\ UNCHANGED <<session_history, undo_events, ghost, gate, background_events, serverVars, engineVars, approvalVars>>

\* line 187: the one look at the token
UndoCheckCancelled ==
    /\ undo.pc = "started"
    /\ undo' = [undo EXCEPT !.pc = IF undo.cancelled THEN "cancelling" ELSE "checked"]
    /\ UNCHANGED <<session_history, undo_events, ghost, gate, background_events, serverVars, engineVars, approvalVars>>

\* lines 188-196: send_event(UndoCompleted "Undo cancelled.").await, return
UndoSendCancelled ==
    /\ undo.pc = "cancelling"
    /\ undo_events' = Append(undo_events,
                             UndoCompletedEvent(FALSE, "Undo cancelled.", "none"))
    /\ undo' = [undo EXCEPT !.pc = "done"]
    /\ UNCHANGED <<session_history, ghost, gate, background_events, serverVars, engineVars, approvalVars>>

\* line 199: clone_history().await takes a copy of the history
UndoCloneHistory ==
    /\ undo.pc = "checked"
    /\ undo' = [undo EXCEPT !.pc = "cloned", !.items = session_history]
    /\ UNCHANGED <<session_history, undo_events, ghost, gate, background_events, serverVars, engineVars, approvalVars>>

\* lines 200-228: the last GhostSnapshot of the copy is looked up; without
\* one completed.message is set, with one the restore is handed to the
\* blocking pool
UndoFindSnapshot ==
    /\ undo.pc = "cloned"
    /\ LET idx == LastGhostSnapshot(undo.items) IN
       IF idx = 0
       THEN undo' = [undo EXCEPT !.pc = "no_snapshot",
                                 !.completed = UndoCompletedEvent(FALSE, "No ghost snapshot available to undo.", "none")]
       ELSE undo' = [undo EXCEPT !.pc = "restoring", !.idx = idx,
                                 !.restore_calls = Append(@, undo.items[idx].ghost_commit)]
    /\ UNCHANGED <<session_history, undo_events, ghost, gate, background_events, serverVars, engineVars, approvalVars>>

\* lines 219-221: send_event(UndoCompleted(completed)).await, return
UndoSendNoSnapshot ==
    /\ undo.pc = "no_snapshot"
    /\ undo_events' = Append(undo_events, undo.completed)
    /\ undo' = [undo EXCEPT !.pc = "done"]
    /\ UNCHANGED <<session_history, ghost, gate, background_events, serverVars, engineVars, approvalVars>>

\* lines 230-249 setting completed.success whatever the restore returned
UndoRestoreDone_always_success ==
    \E restore_result \in RestoreResults :
        LET commit_id == undo.items[undo.idx].ghost_commit IN
        /\ undo.pc = "restoring"
        /\ undo' = [undo EXCEPT !.pc = "completing",
                                 !.restore_result = restore_result,
                                 !.completed = UndoCompletedEvent(TRUE, "Undo restored snapshot", commit_id)]
        /\ session_history' = IF restore_result = "Ok"
                              THEN VecRemove(undo.items, undo.idx) ELSE session_history
        /\ UNCHANGED <<undo_events, ghost, gate, background_events, serverVars, engineVars, approvalVars>>

\* lines 230-249: the restore returns. On Ok(Ok(())) the item is removed
\* from the cloned items, the history is replaced by them
\* (replace_history(items).await, line 233) and completed.success is set;
\* on Ok(Err(err)) and Err(err) only completed.message is set
UndoRestoreDone ==
    \E restore_result \in RestoreResults :
        LET commit_id == undo.items[undo.idx].ghost_commit IN
        /\ undo.pc = "restoring"
        /\ IF restore_result = "Ok"
           THEN /\ session_history' = VecRemove(undo.items, undo.idx)
                /\ undo' = [undo EXCEPT !.pc = "completing",
                                         !.restore_result = restore_result,
                                         !.completed = UndoCompletedEvent(TRUE, "Undo restored snapshot", commit_id)]
           ELSE /\ undo' = [undo EXCEPT !.pc = "completing",
                                         !.restore_result = restore_result,
                                         !.completed = UndoCompletedEvent(FALSE, "Failed to restore snapshot", commit_id)]
                /\ UNCHANGED session_history
        /\ UNCHANGED <<undo_events, ghost, gate, background_events, serverVars, engineVars, approvalVars>>

\* lines 251-252: send_event(UndoCompleted(completed)).await
UndoSendCompleted ==
    /\ undo.pc = "completing"
    /\ undo_events' = Append(undo_events, undo.completed)
    /\ undo' = [undo EXCEPT !.pc = "done"]
    /\ UNCHANGED <<session_history, ghost, gate, background_events, serverVars, engineVars, approvalVars>>

\* another task of the session records an item
RecordConversationItems ==
    \E item \in ResponseItems :
        /\ Len(session_history) < MaxItems
        /\ session_history' = Append(session_history, item)
        /\ UNCHANGED <<undo, undo_events, ghost, gate, background_events, serverVars, engineVars, approvalVars>>

\* the steps of the run after its start
UndoStep ==
    \/ UndoCheckCancelled
    \/ UndoSendCancelled
    \/ UndoCloneHistory
    \/ UndoFindSnapshot
    \/ UndoSendNoSnapshot
    \/ UndoRestoreDone
    \/ UndoSendCompleted

NextUndo ==
    \/ UndoStart
    \/ UndoCancel
    \/ UndoStep
    \/ RecordConversationItems

SpecUndo == Init /\ [][NextUndo]_vars

\* the runtime keeps polling the task and the blocking pool ends the restore
SpecUndoFair == SpecUndo /\ WF_vars(UndoStep)

----------------------------------------------------------------------------
(* core/src/tasks/ghost_snapshot.rs: GhostSnapshotTask::run.               *)
(* run spawns a task that selects between the cancellation of its token    *)
(* and the capture of a ghost commit in the blocking pool, and then marks   *)
(* the tool-call gate of the turn ready with the token it was made with.    *)

\* tokens a gate hands out to its subscribers
Tokens == {1, 2}

\* results of spawn_blocking(create_ghost_commit).await: Ok(Ok(ghost_commit)),
\* Ok(Err(NotAGitRepository)), Ok(Err(err)), Err(JoinError)
CaptureResults == {"Ok", "NotAGitRepository", "Err", "Panic"}

\* the message of the background event of lines 202-208 and 219-220
BackgroundMessage(result) ==
    CASE result = "NotAGitRepository" -> "Snapshots disabled: current directory is not a Git repository."
      [] result = "Err" -> "Snapshots disabled after ghost snapshot error"
      [] result = "Panic" -> "Snapshots disabled after ghost snapshot panic"

\* the results of mark_ready(token).await the task matches on (235-237):
\* Ok(true) "gate marked ready", Ok(false) "gate already ready",
\* Err(err) "failed to mark ghost snapshot ready"
MarkReadyResults == {"OkTrue", "OkFalse", "Err"}

\* ctx.tool_call_gate.mark_ready(token) returning result: the call is made
\* with the token; the gate is marked ready by it when it returns Ok(true)
\* and is left as it was otherwise
mark_ready(g, token, result) == [ready |-> IF result = "OkTrue" THEN TRUE ELSE g.ready, marked |-> Append(g.marked, token)]

\* run is called for a turn with a fresh gate: the task is spawned and the
\* capture handed to the blocking pool (lines 173-185)
GhostStart ==
    \E token \in Tokens :
        /\ ghost.pc \in {"idle", "done"}
        /\ Len(session_history) < MaxItems
        /\ ghost' = [pc |-> "blocking", cancelled |-> FALSE, token |-> token,
                     result |-> "None", recorded |-> FALSE, outcome |-> "None",
                     mark_result |-> "None"]
        /\ gate' = GateNew
        /\ background_events' = <<>>
        /\ UNCHANGED <<session_history, undo, undo_events, serverVars, engineVars, approvalVars>>

\* the owner of the task cancels its token
GhostCancel ==
    /\ ghost.pc \in {"blocking", "captured", "recording", "failed", "panicked", "notifying"}
    /\ ~ghost.cancelled
    /\ ghost' = [ghost EXCEPT !.cancelled = TRUE]
    /\ UNCHANGED <<session_history, undo, undo_events, gate, background_events, serverVars, engineVars, approvalVars>>

\* the blocking task returns (lines 181-187)
GhostBlockingDone ==
    \E result \in CaptureResults :
        /\ ghost.pc = "blocking"
        /\ ghost' = [ghost EXCEPT !.result = result,
                                  !.pc = CASE result = "Ok" -> "captured"
                                           [] result \in {"NotAGitRepository", "Err"} -> "failed"
                                           [] result = "Panic" -> "panicked"]
        /\ UNCHANGED <<session_history, undo, undo_events, gate, background_events, serverVars, engineVars, approvalVars>>

\* Ok(Ok(ghost_commit)): record_conversation_items appends the snapshot to
\* the history (187-194); the capture branch of the select is still inside
\* that await
GhostRecord ==
    \E ghost_commit \in Commits :
        /\ ghost.pc = "captured"
        /\ session_history' = Append(session_history, GhostSnapshot(ghost_commit))
        /\ ghost' = [ghost EXCEPT !.pc = "recording", !.recorded = TRUE]
        /\ UNCHANGED <<undo, undo_events, gate, background_events, serverVars, engineVars, approvalVars>>

\* record_conversation_items returns and the capture branch of the select
\* ends with false (195-196, 227)
GhostCaptured ==
    /\ ghost.pc = "recording"
    /\ ghost' = [ghost EXCEPT !.pc = "marking", !.outcome = "captured"]
    /\ UNCHANGED <<session_history, undo, undo_events, gate, background_events, serverVars, engineVars, approvalVars>>

\* Ok(Err(err)) and Err(err): notify_background_event(message).await tells
\* that snapshots are disabled (197-225); the capture branch of the select
\* is still inside that await
GhostNotify ==
    /\ ghost.pc \in {"failed", "panicked"}
    /\ background_events' = Append(background_events, BackgroundMessage(ghost.result))
    /\ ghost' = [ghost EXCEPT !.pc = "notifying"]
    /\ UNCHANGED <<session_history, undo, undo_events, gate, serverVars, engineVars, approvalVars>>

\* notify_background_event returns and the capture branch of the select
\* ends with false (213, 225, 227)
GhostNotified ==
    /\ ghost.pc = "notifying"
    /\ ghost' = [ghost EXCEPT !.pc = "marking",
                              !.outcome = IF ghost.result = "Panic" THEN "panicked" ELSE "failed"]
    /\ UNCHANGED <<session_history, undo, undo_events, gate, background_events, serverVars, engineVars, approvalVars>>

\* the cancelled() branch of the select wins: the capture branch is dropped
\* where it is, a snapshot it has appended stays in the history and an
\* event it has sent stays sent (177)
GhostCancelled ==
    /\ ghost.pc \in {"blocking", "captured", "recording", "failed", "panicked", "notifying"}
    /\ ghost.cancelled
    /\ ghost' = [ghost EXCEPT !.pc = "marking", !.outcome = "cancelled"]
    /\ UNCHANGED <<session_history, undo, undo_events, gate, background_events, serverVars, engineVars, approvalVars>>

\* lines 230-238: ctx.tool_call_gate.mark_ready(token).await and the match
\* on its result, each arm of which only logs
GhostMarkReady ==
    \E result \in MarkReadyResults :
    /\ ghost.pc = "marking"
    /\ gate' = mark_ready(gate, ghost.token, result)
    /\ ghost' = [ghost EXCEPT !.pc = "done", !.mark_result = result]
    /\ UNCHANGED <<session_history, undo, undo_events, background_events, serverVars, engineVars, approvalVars>>

\* the steps of the spawned task
GhostStep ==
    \/ GhostBlockingDone
    \/ GhostRecord
    \/ GhostCaptured
    \/ GhostNotify
    \/ GhostNotified
    \/ GhostCancelled
    \/ GhostMarkReady

NextGhost ==
    \/ GhostStart
    \/ GhostCancel
    \/ GhostStep

SpecGhost == Init /\ [][NextGhost]_vars

\* the runtime keeps polling the spawned task and the blocking pool ends
\* the capture
SpecGhostFair == SpecGhost /\ WF_vars(GhostStep)

----------------------------------------------------------------------------
(* Claims *)

\* C1: when the combined evaluation is Match(Prompt) and the approval mode is
\* Never, evaluate_with_policy returns Forbidden, never Skip or NeedsApproval.
C1_PromptUnderNeverIsForbidden ==
    (/\ approval_policy = "Never"
     /\ evaluation.tag = "Match"
     /\ evaluation.decision = "Prompt")
    => requirement.tag = "Forbidden"

C1_Witness ==
    /\ approval_policy = "Never"
    /\ evaluation.tag = "Match"
    /\ evaluation.decision = "Prompt"
    /\ requirement = Forbidden(PROMPT_REASON)

\* C2: in every approval mode a Match(Forbidden) evaluation gives the
\* requirement Forbidden; no mode downgrades it.
C2_ForbiddenInEveryMode ==
    (/\ approval_policy \in AskForApproval
     /\ evaluation.tag = "Match"
     /\ evaluation.decision = "Forbidden")
    => requirement.tag = "Forbidden"

C2_Witness ==
    /\ approval_policy = "OnRequest"
    /\ evaluation.tag = "Match"
    /\ evaluation.decision = "Forbidden"
    /\ requirement.tag = "Forbidden"

\* C3: the evaluation of a list of inner commands is the most severe of the
\* evaluations check gives for each inner command on its own, under
\* Forbidden > Prompt > Allow > NoMatch.
C3_CheckMultipleIsMaxSeverity ==
    approval_policy \in AskForApproval =>
        /\ \A i \in 1..Len(commands) :
              Severity(check(policy, commands[i])) <= Severity(evaluation)
        /\ \E i \in 1..Len(commands) : check(policy, commands[i]) = evaluation

\* two inner commands, the second strictly more severe than the first
C3_Witness ==
    /\ approval_policy \in AskForApproval
    /\ Len(commands) = 2
    /\ check(policy, commands[1]).tag = "Match"
    /\ Severity(check(policy, commands[1])) < Severity(check(policy, commands[2]))
    /\ evaluation = check(policy, commands[2])

\* C4: for a shell inline-script argv, if one of the inner commands of the
\* script is forbidden by the policy, the requirement is Forbidden whatever
\* the other inner commands and the approval mode are.
C4_ForbiddenInnerCommandForbidsScript ==
    LET parsed == parse_shell_lc_plain_commands(command) IN
    (/\ approval_policy \in AskForApproval
     /\ parsed.ok
     /\ \E i \in 1..Len(parsed.cmds) :
           LET e == check(policy, parsed.cmds[i]) IN
           e.tag = "Match" /\ e.decision = "Forbidden")
    => requirement.tag = "Forbidden"

\* bash -lc "cat a.txt && rm -rf /tmp" with cat allowed and rm forbidden
C4_Witness ==
    LET parsed == parse_shell_lc_plain_commands(command) IN
    /\ approval_policy = "OnRequest"
    /\ parsed.ok
    /\ Len(parsed.cmds) = 2
    /\ check(policy, parsed.cmds[1]) = Match("Allow", NONE)
    /\ check(policy, parsed.cmds[2]).tag = "Match"
    /\ check(policy, parsed.cmds[2]).decision = "Forbidden"
    /\ requirement.tag = "Forbidden"

\* C5: a command whose joined text contains a forbidden substring the source
\* declared, or whose program name matches a forbidden regex the source
\* declared, evaluates to Match(Forbidden), also when a ProgramSpec of that
\* program would match and allow it.
C5_ForbiddenListsComeFirst ==
    (phase = "built" /\ approval_policy \in AskForApproval) =>
        \A i \in 1..Len(commands) :
            LET cmd == commands[i] IN
            (/\ cmd # <<>>
             /\ \E k \in 1..Len(source) :
                   \/ /\ source[k].kind = "forbid_substrings"
                      /\ \E j \in 1..Len(source[k].strings) :
                            Contains(JoinedText(cmd), source[k].strings[j])
                   \/ /\ source[k].kind = "forbid_program_regex"
                      /\ is_match(source[k].regex, Basename(cmd[1][1])))
            => (evaluation.tag = "Match" /\ evaluation.decision = "Forbidden")

\* cat a.txt: a registered cat spec matches it, "a.txt" is a forbidden substring
C5_Witness ==
    /\ phase = "built"
    /\ approval_policy \in AskForApproval
    /\ commands = <<command>>
    /\ command # <<>>
    /\ \E i \in 1..Len(policy.forbidden_substrings) :
          Contains(JoinedText(command), policy.forbidden_substrings[i])
    /\ FirstMatch(policy.programs[Basename(command[1][1])], command) = Match("Allow", NONE)
    /\ evaluation.tag = "Match"
    /\ evaluation.decision = "Forbidden"

\* C6: when one of the policy files of the directory cannot be read or does
\* not compile, exec_policy_for returns an error and no Policy.
C6_LoadIsAllOrNothing ==
    (/\ load_result # NotLoaded
     /\ features_enabled
     /\ policy_dir.status = "ok"
     /\ \E i \in 1..Len(policy_dir.entries) :
           LET e == policy_dir.entries[i] IN
           /\ IsPolicyFile(e)
           /\ \/ ~e.readable
              \/ HasSyntaxError(e.contents)
              \/ \E k \in 1..Len(e.contents) :
                    ~EvalStatementV2(PolicyBuilderNew, e.contents[k]).ok)
    => (load_result.tag = "Err" /\ policy = NoPolicy)

\* an earlier file was parsed into the builder before a later one failed
C6_Witness ==
    /\ load_result.tag = "Err"
    /\ load_result.error \in {"ReadFile", "ParsePolicy"}
    /\ load_result.path = 2
    /\ builder # PolicyBuilderNew
    /\ policy = NoPolicy

\* C7: no Policy is built from a source in which a define_program call lists
\* a should_match token sequence its spec does not match or a
\* should_not_match token sequence its spec matches.
C7_SelfTestsAreEnforced ==
    phase = "built" =>
        \A n \in DOMAIN policy.programs :
            \A i \in 1..Len(policy.programs[n]) :
                LET spec == policy.programs[n][i] IN
                spec.kind = "program" =>
                    /\ \A k \in 1..Len(spec.should_match) :
                          SpecMatches(spec, <<Tok(spec.program)>> \o spec.should_match[k])
                    /\ \A k \in 1..Len(spec.should_not_match) :
                          ~SpecMatches(spec, <<Tok(spec.program)>> \o spec.should_not_match[k])

\* C8: in every approval mode other than Never a Match(Prompt) evaluation
\* gives NeedsApproval with a reason (Some, never None).
C8_PromptAsksWithReason ==
    (/\ approval_policy \in AskForApproval \ {"Never"}
     /\ evaluation.tag = "Match"
     /\ evaluation.decision = "Prompt")
    => (requirement.tag = "NeedsApproval" /\ requirement.reason # NONE)

C8_Witness ==
    /\ approval_policy = "UnlessTrusted"
    /\ evaluation.tag = "Match"
    /\ evaluation.decision = "Prompt"
    /\ requirement = NeedsApproval(PROMPT_REASON)

\* C9: in every approval mode a Match(Allow) evaluation gives Skip.
C9_AllowSkips ==
    (/\ approval_policy \in AskForApproval
     /\ evaluation.tag = "Match"
     /\ evaluation.decision = "Allow")
    => requirement = Skip

C9_Witness ==
    /\ approval_policy = "UnlessTrusted"
    /\ evaluation.tag = "Match"
    /\ evaluation.decision = "Allow"
    /\ requirement = Skip

\* C10: in every approval mode, Never included, a NoMatch evaluation gives no
\* requirement.
C10_NoMatchGivesNoRequirement ==
    (approval_policy \in AskForApproval /\ evaluation = NoMatch)
    => requirement = NoRequirement

C10_Witness ==
    /\ approval_policy = "Never"
    /\ command # <<>>
    /\ evaluation = NoMatch
    /\ requirement = NoRequirement

\* C11: the combined evaluation is NoMatch exactly when every inner command
\* evaluates to NoMatch; one inner command that matches makes it Match(_).
C11_NoMatchIffAllNoMatch ==
    approval_policy \in AskForApproval =>
        ((evaluation = NoMatch) <=>
            \A i \in 1..Len(commands) : check(policy, commands[i]) = NoMatch)

\* two inner commands: the first has no match, the second matches
C11_Witness ==
    /\ approval_policy \in AskForApproval
    /\ Len(commands) = 2
    /\ check(policy, commands[1]) = NoMatch
    /\ check(policy, commands[2]).tag = "Match"
    /\ evaluation.tag = "Match"

\* C12 (as stated): the Forbidden requirement carries the reason the
\* matching policy rule declared.
C12_RuleReasonIsCarried ==
    (/\ approval_policy \in AskForApproval
     /\ evaluation.tag = "Match"
     /\ evaluation.decision = "Forbidden"
     /\ evaluation.reason # NONE)
    => requirement = Forbidden(evaluation.reason)

\* C12 (amended): the Forbidden requirement of a Match(Forbidden) carries
\* FORBIDDEN_REASON and the requirement of a Match(Prompt) carries
\* PROMPT_REASON, whatever reason the matching rule declared.
C12_ReasonIsTheConstant ==
    (approval_policy \in AskForApproval /\ evaluation.tag = "Match") =>
        /\ evaluation.decision = "Forbidden" => requirement.reason = FORBIDDEN_REASON
        /\ evaluation.decision = "Prompt" => requirement.reason = PROMPT_REASON

\* define_program("rm", forbidden="no deletes") decided
C12_Witness ==
    /\ approval_policy \in AskForApproval
    /\ evaluation = Match("Forbidden", "no deletes")
    /\ requirement = Forbidden(FORBIDDEN_REASON)

\* C14: an argv that is not decomposed is evaluated as the one command equal
\* to the argv, and the result is that of check_multiple on [argv].
C14_FallbackIsTheArgv ==
    (approval_policy \in AskForApproval /\ ~parse_shell_lc_plain_commands(command).ok)
    => /\ commands = <<command>>
       /\ evaluation = check_multiple(policy, <<command>>)
       /\ requirement = map_to_requirement(check(policy, command), approval_policy)

\* a shell invocation whose script is not decomposed, decided by a rule
C14_Witness ==
    /\ approval_policy \in AskForApproval
    /\ Len(command) = 3
    /\ command[1] = Tok("bash")
    /\ ~parse_shell_lc_plain_commands(command).ok
    /\ commands = <<command>>
    /\ evaluation.tag = "Match"

\* C15: the list handed to check_multiple is never empty and holds the
\* commands in the order of the script.
C15_InnerCommandsNonEmptyInOrder ==
    approval_policy \in AskForApproval =>
        /\ commands # <<>>
        /\ parse_shell_lc_plain_commands(command).ok =>
              Flatten(Flatten(commands))
                  = SelectSeq(command[3], LAMBDA w : w \notin SequencingOperators)

\* "cat a.txt && rm -rf /tmp": cat first, rm second
C15_Witness ==
    /\ approval_policy \in AskForApproval
    /\ command = ShellCommand(<<"cat", "a.txt", "&&", "rm", "-rf", "/tmp">>)
    /\ commands = <<Argv(<<"cat", "a.txt">>), Argv(<<"rm", "-rf", "/tmp">>)>>

\* C16: a ProgramSpec whose forbidden reason is set matches every invocation
\* of its program with the decision Forbidden, whatever the arguments: each
\* such spec of the policy matches each evaluated command of its program,
\* and when the first rule the source registers for the program is a
\* define_program with a forbidden reason the evaluation is Match(Forbidden).
C16_ForbiddenSpecMatchesAnyArguments ==
    (phase = "built" /\ approval_policy \in AskForApproval) =>
        \A i \in 1..Len(commands) :
            commands[i] # <<>> /\ Basename(commands[i][1][1]) \in ProgramNames =>
                LET prog == Basename(commands[i][1][1])
                    specs == policy.programs[prog]
                    registers(k) ==
                        \/ source[k].kind = "define_program" /\ source[k].program = prog
                        \/ source[k].kind = "prefix_rule" /\ source[k].pattern[1][1] = prog
                IN
                /\ \A j \in 1..Len(specs) :
                      (specs[j].kind = "program" /\ specs[j].forbidden # NONE) =>
                          /\ SpecMatches(specs[j], commands[i])
                          /\ SpecEvaluation(specs[j]) = Match("Forbidden", specs[j].forbidden)
                /\ (\E k \in 1..Len(source) :
                       /\ source[k].kind = "define_program"
                       /\ source[k].program = prog
                       /\ source[k].forbidden # NONE
                       /\ \A j \in 1..(k - 1) : ~registers(j))
                   => (evaluation.tag = "Match" /\ evaluation.decision = "Forbidden")

\* rm without arguments, under a policy whose second rm spec wants a path
C16_Witness ==
    /\ phase = "built"
    /\ approval_policy \in AskForApproval
    /\ command = Argv(<<"rm">>)
    /\ Len(policy.programs["rm"]) = 2
    /\ policy.programs["rm"][1].forbidden = "no deletes"
    /\ ~SpecMatches(policy.programs["rm"][2], command)
    /\ evaluation = Match("Forbidden", "no deletes")

\* C17: the specs registered under one program name are tried in the order
\* of their define_program calls and the first that matches decides: the
\* evaluation of a command no forbidden list applies to is that of the
\* earliest statement of the source whose rule matches it.
C17_FirstRegisteredMatchWins ==
    (/\ phase = "built"
     /\ approval_policy \in AskForApproval
     /\ Len(commands) = 1
     /\ commands[1] # <<>>
     /\ Basename(commands[1][1][1]) \in ProgramNames
     /\ \A i \in 1..Len(policy.forbidden_substrings) :
           ~Contains(JoinedText(commands[1]), policy.forbidden_substrings[i])
     /\ \A i \in 1..Len(policy.forbidden_program_regexes) :
           ~is_match(policy.forbidden_program_regexes[i].regex,
                     Basename(commands[1][1][1])))
    => LET cmd == commands[1]
           prog == Basename(cmd[1][1])
           registered(k) == EvalStatementV2(PolicyBuilderNew, source[k]).builder.programs[prog]
           matching == {k \in 1..Len(source) :
                            /\ registered(k) # <<>>
                            /\ SpecMatches(registered(k)[1], cmd)}
       IN IF matching = {} THEN evaluation = NoMatch
          ELSE evaluation = SpecEvaluation(
                   registered(CHOOSE k \in matching : \A j \in matching : k <= j)[1])

\* rm -rf /tmp under a policy that first allows it and then forbids rm
C17_Witness ==
    /\ phase = "built"
    /\ approval_policy \in AskForApproval
    /\ command = Argv(<<"rm", "-rf", "/tmp">>)
    /\ Len(source) = 2
    /\ source[1].kind = "define_program" /\ source[1].forbidden = NONE
    /\ source[2].kind = "define_program" /\ source[2].forbidden = "no deletes"
    /\ Len(policy.programs["rm"]) = 2
    /\ SpecMatches(policy.programs["rm"][1], command)
    /\ SpecMatches(policy.programs["rm"][2], command)
    /\ evaluation = Match("Allow", NONE)

\* C18: a define_program call with two options of one name fails, leaves
\* the builder as the statements before it made it, and the source never
\* compiles to a Policy.
C18_DuplicateOptionFailsTheBuild ==
    \A k \in 1..Len(source) :
        (/\ source[k].kind = "define_program"
         /\ \E i, j \in 1..Len(source[k].options) :
               i # j /\ source[k].options[i].name = source[k].options[j].name)
        => /\ phase = "failed"
           /\ k = Len(source)
           /\ policy = NoPolicy
           /\ builder = parse(PolicyBuilderNew, SubSeq(source, 1, k - 1), <<>>).builder

\* the call with the duplicate comes after a statement that registered a spec
C18_Witness ==
    /\ phase = "failed"
    /\ Len(source) = 2
    /\ source[1].kind = "define_program"
    /\ source[2].kind = "define_program"
    /\ Len(source[2].options) = 2
    /\ source[2].options[1].name = source[2].options[2].name
    /\ Len(builder.programs[source[1].program]) = 1
    /\ \A n \in ProgramNames \ {source[1].program} : builder.programs[n] = <<>>

\* C19: a source with a forbid_program_regex statement whose pattern is not
\* a valid regular expression never yields a Policy, and a Policy holds the
\* pattern of every forbid_program_regex statement of its source.
C19_InvalidRegexFailsTheBuild ==
    /\ (\E k \in 1..Len(source) :
           source[k].kind = "forbid_program_regex" /\ ~RegexNew(source[k].regex))
       => (phase = "failed" /\ policy = NoPolicy)
    /\ phase = "built" =>
          \A k \in 1..Len(source) :
              source[k].kind = "forbid_program_regex" =>
                  \E i \in 1..Len(policy.forbidden_program_regexes) :
                      policy.forbidden_program_regexes[i].regex = source[k].regex

\* a valid statement, then the pattern "("
C19_Witness ==
    /\ phase = "failed"
    /\ Len(source) = 2
    /\ source[1].kind = "forbid_program_regex" /\ RegexNew(source[1].regex)
    /\ source[2].kind = "forbid_program_regex" /\ ~RegexNew(source[2].regex)
    /\ policy = NoPolicy

\* C20: the outcome of exec_policy_for is the same for every order in which
\* the directory lists its entries: the same result, the same statements
\* parsed in the same order and the same Policy.
C20_ListingOrderIsIrrelevant ==
    load_result # NotLoaded =>
        LET n == Len(policy_dir.entries)
            orders == {f \in [1..n -> 1..n] : \A i, j \in 1..n : i # j => f[i] # f[j]}
        IN \A f \in orders :
               LET r == exec_policy_for(features_enabled,
                            [policy_dir EXCEPT !.entries = [i \in 1..n |-> policy_dir.entries[f[i]]]])
               IN /\ r.result = load_result
                  /\ r.evaluated = source
                  /\ r.policy = policy

\* two policy files with rules for rm, listed with the greater path first
C20_Witness ==
    /\ load_result = OkSome
    /\ Len(policy_dir.entries) = 2
    /\ policy_dir.entries[1].path > policy_dir.entries[2].path
    /\ policy_dir.entries[1].contents # <<>>
    /\ policy_dir.entries[2].contents # <<>>
    /\ source = policy_dir.entries[2].contents \o policy_dir.entries[1].contents
    /\ Len(policy.programs["rm"]) = 2
    /\ policy.programs["rm"][1].kind = "prefix"
    /\ policy.programs["rm"][2].kind = "program"
    /\ check(policy, Argv(<<"rm", "-rf", "/tmp">>)) = Match("Forbidden", NONE)

\* C23: evaluation is total: for every argv it ends with Match(decision) or
\* NoMatch, and the caller gets one of the four requirement values; there
\* is no error outcome.
C23_EvaluationIsTotal ==
    approval_policy \in AskForApproval =>
        /\ \/ evaluation = NoMatch
           \/ /\ evaluation.tag = "Match"
              /\ evaluation.decision \in Decisions
        /\ \/ requirement \in {NoRequirement, Skip}
           \/ requirement \in {Forbidden(FORBIDDEN_REASON), Forbidden(PROMPT_REASON),
                               NeedsApproval(PROMPT_REASON)}

\* a script that ends in "&&", decided by a forbidden substring
C23_Witness ==
    /\ approval_policy \in AskForApproval
    /\ command = ShellCommand(<<"cat", "a.txt", "&&">>)
    /\ ~parse_shell_lc_plain_commands(command).ok
    /\ evaluation.tag = "Match"
    /\ requirement = Forbidden(FORBIDDEN_REASON)

\* C24: a file matcher applied to a path that cannot be stat'ed fails as a
\* predicate: under a policy whose only rule is a cat spec with
\* args=[ARG_RFILES], cat on a missing path evaluates to NoMatch and cat on
\* a readable file to Match(Allow).
C24_MissingFileIsNoMatch ==
    (/\ phase = "built"
     /\ approval_policy \in AskForApproval
     /\ Len(source) = 1
     /\ source[1].kind = "define_program"
     /\ source[1].program = "cat"
     /\ source[1].args = <<"ReadableFiles">>
     /\ source[1].forbidden = NONE)
    => /\ command = Argv(<<"cat", "missing">>) =>
             (evaluation = NoMatch /\ requirement = NoRequirement)
       /\ command = Argv(<<"cat", "a.txt">>) =>
             (evaluation = Match("Allow", NONE) /\ requirement = Skip)

C24_Witness ==
    /\ phase = "built"
    /\ approval_policy \in AskForApproval
    /\ Len(source) = 1
    /\ source[1].kind = "define_program"
    /\ source[1].args = <<"ReadableFiles">>
    /\ Len(policy.programs["cat"]) = 1
    /\ command = Argv(<<"cat", "missing">>)
    /\ "missing" \notin ReadablePaths
    /\ SpecMatches(policy.programs["cat"][1], Argv(<<"cat", "a.txt">>))
    /\ evaluation = NoMatch

\* C25: what the command-line front end prints is the Evaluation the engine
\* gives for the same policy and argv, the one obtained after decomposing a
\* shell inline-script invocation and combining the decisions of its inner
\* commands.
C25_CliPrintsEngineEvaluation ==
    cli_result.tag = "Printed" =>
        LET loaded == load_policies(cli_policies, PolicyBuilderNew, 1).policy
            engine == evaluate_with_policy(loaded, cli_args, "OnRequest").evaluation
        IN cli_result.stdout = to_string_pretty(engine)

\* C26: in every ProgramSpec of a compiled Policy a variadic matcher occurs
\* in the positional matchers only as the last entry, and a source with a
\* define_program call that has one in another position does not compile.
C26_VariadicMatcherOnlyLast ==
    /\ load_result = OkSome =>
          \A n \in ProgramNames :
              \A i \in 1..Len(policy.programs[n]) :
                  policy.programs[n][i].kind = "program" =>
                      \A k \in 1..(Len(policy.programs[n][i].arg_patterns) - 1) :
                          policy.programs[n][i].arg_patterns[k] \notin VariadicMatchers
    /\ (\E j \in 1..Len(source) :
           /\ source[j].kind = "define_program"
           /\ \E k \in 1..(Len(source[j].args) - 1) :
                 source[j].args[k] \in VariadicMatchers)
       => (load_result # NotLoaded => load_result.tag = "Err")

\* C27: exec_policy_for returns Ok(None) exactly when the feature is
\* disabled or the policy directory does not exist; a directory that cannot
\* be read, an entry that cannot be read and a policy file that cannot be
\* read are returned as errors.
C27_OkNoneOnlyWhenDisabledOrMissing ==
    load_result # NotLoaded =>
        /\ (load_result = OkNone)
               <=> (~features_enabled \/ policy_dir.status = "notfound")
        /\ (features_enabled /\ policy_dir.status = "denied")
               => load_result = Err("ReadDir", 0)
        /\ (/\ features_enabled
            /\ \E i \in 1..Len(policy_dir.entries) : ~policy_dir.entries[i].entry_ok)
               => load_result = Err("ReadDir", 0)
        /\ (/\ features_enabled
            /\ \E i \in 1..Len(policy_dir.entries) :
                  /\ IsPolicyFile(policy_dir.entries[i])
                  /\ ~policy_dir.entries[i].readable)
               => load_result.tag = "Err"

\* the feature is disabled and the directory holds a policy file that
\* cannot be read
C27_Witness ==
    /\ load_result = OkNone
    /\ ~features_enabled
    /\ policy_dir.status = "ok"
    /\ \E i \in 1..Len(policy_dir.entries) :
          /\ IsPolicyFile(policy_dir.entries[i])
          /\ ~policy_dir.entries[i].readable
    /\ policy = NoPolicy

\* C28: on TaskComplete for a turn exactly one TurnCompleted notification is
\* sent, with the event id as turn id; it is Failed with the recorded
\* message when an Error event was recorded for the turn key since the key
\* was last consumed, and Completed without error otherwise. (The handler
\* consumes the key when it takes the accumulator and sends the notification
\* built from it at its next step; an Error event records its message under
\* its key, the other steps leave the message of a key alone, TaskComplete
\* and TurnAborted consume the key.)
C28_TaskCompleteReportsRecordedError ==
    [][ \A key \in TurnKeys :
          LET c == key[1]
              recorded == MapGetOrDefault(turn_state, key).last_error_message
              after == MapGetOrDefault(turn_state', key).last_error_message
              takes == /\ handlers[c].pc \in {"idle", "responding"}
                       /\ handlers'[c].pc = "emit"
                       /\ handlers'[c].event.id = key[2]
              returns == /\ handlers[c].pc = "emit"
                         /\ handlers'[c].pc = "idle"
                         /\ handlers[c].event.msg = "TaskComplete"
                         /\ handlers[c].event.id = key[2]
              records == /\ event'.msg = "Error"
                         /\ event'.conversation_id = c /\ event'.id = key[2]
                         /\ handlers' = handlers
                         /\ pending_interrupts' = pending_interrupts
          IN
          /\ (takes /\ handlers'[c].event.msg = "TaskComplete") =>
                LET n == handlers'[c].notification.value IN
                /\ handlers'[c].sent = <<>>
                /\ n.notification = "TurnCompleted"
                /\ n.turn.id = key[2]
                /\ IF recorded.tag = "Some"
                   THEN /\ n.turn.status = "Failed"
                        /\ n.turn.error = OptSome([message |-> recorded.value])
                   ELSE /\ n.turn.status = "Completed"
                        /\ n.turn.error = OptNone
          /\ returns =>
                /\ event' = handlers[c].event
                /\ outgoing' = <<handlers[c].notification.value>>
          /\ takes => after = OptNone
          /\ records => after = OptSome(event'.message)
          /\ ~(takes \/ records) => after = recorded ]_vars

\* a turn with a recorded error and a recorded usage was completed while
\* the handler of the other conversation stood at an await
C28_Witness ==
    /\ event.msg = "TaskComplete"
    /\ handlers[event.conversation_id].pc = "idle"
    /\ \E d \in Conversations : handlers[d].pc # "idle"
    /\ Len(outgoing) = 1
    /\ outgoing[1].turn.id = event.id
    /\ outgoing[1].turn.status = "Failed"
    /\ outgoing[1].turn.error = OptSome([message |-> "boom"])
    /\ outgoing[1].usage.input_tokens = 10
    /\ <<event.conversation_id, event.id>> \notin DOMAIN turn_state

\* C29: on TurnAborted for a turn exactly one TurnCompleted notification is
\* sent, after the replies to the pending interrupt requests; its status is
\* Interrupted whether or not an error was recorded for the turn, and a
\* recorded message is passed on as the turn's error.
C29_TurnAbortedReportsInterrupted ==
    [][ \A c \in Conversations :
          LET h == handlers[c]
              key == <<c, h.event.id>>
              recorded == MapGetOrDefault(turn_state, key).last_error_message
          IN
          /\ (h.pc = "responding" /\ handlers'[c].pc = "emit") =>
                LET n == handlers'[c].notification.value IN
                /\ handlers'[c].sent = h.sent
                /\ n.notification = "TurnCompleted"
                /\ n.turn.id = key[2]
                /\ n.turn.status = "Interrupted"
                /\ n.turn.error =
                       IF recorded.tag = "Some" THEN OptSome([message |-> recorded.value])
                       ELSE OptNone
          /\ (h.pc = "emit" /\ handlers'[c].pc = "idle" /\ h.event.msg = "TurnAborted") =>
                /\ event' = h.event
                /\ outgoing' = Append(h.sent, h.notification.value)
                /\ Len(h.sent) = Len(h.pending)
                /\ \A i \in 1..Len(h.sent) : "notification" \notin DOMAIN h.sent[i]
                /\ h.notification.value.turn.status = "Interrupted" ]_vars

\* a turn with a recorded error was aborted
C29_Witness ==
    /\ event.msg = "TurnAborted"
    /\ handlers[event.conversation_id].pc = "idle"
    /\ Len(outgoing) = 1
    /\ outgoing[1].notification = "TurnCompleted"
    /\ outgoing[1].turn.status = "Interrupted"
    /\ outgoing[1].turn.error = OptSome([message |-> "boom"])

\* C30: the usage of a TurnCompleted notification is the total token usage
\* of the most recent TokenCount event recorded for the turn key (a later
\* TokenCount replaces an earlier one, an Error event leaves it alone), all
\* zeros when none was recorded; completing or interrupting the turn
\* removes the accumulator of the key.
C30_UsageIsLastTokenCount ==
    [][ \A key \in TurnKeys :
          LET c == key[1]
              recorded == MapGetOrDefault(turn_state, key).last_total_token_usage
              after == MapGetOrDefault(turn_state', key).last_total_token_usage
              takes == /\ handlers[c].pc \in {"idle", "responding"}
                       /\ handlers'[c].pc = "emit"
                       /\ handlers'[c].event.id = key[2]
              records_at_once == /\ event'.msg = "TokenCount"
                                 /\ event'.conversation_id = c /\ event'.id = key[2]
                                 /\ event'.info.tag = "Some"
                                 /\ handlers' = handlers
                                 /\ pending_interrupts' = pending_interrupts
              records_later == /\ handlers[c].pc = "token_count"
                               /\ handlers'[c].pc = "idle"
                               /\ handlers[c].event.id = key[2]
          IN
          /\ takes =>
                LET sent == handlers'[c].notification.value IN
                /\ IF recorded.tag = "Some"
                   THEN /\ FromI32(sent.usage.input_tokens) = recorded.value.input_tokens
                        /\ FromI32(sent.usage.cached_input_tokens)
                               = recorded.value.cached_input_tokens
                        /\ FromI32(sent.usage.output_tokens) = recorded.value.output_tokens
                   ELSE sent.usage = [input_tokens |-> 0, cached_input_tokens |-> 0,
                                      output_tokens |-> 0]
                /\ key \notin DOMAIN turn_state'
          /\ (records_at_once \/ records_later)
                => after = OptSome(event'.info.value.total_token_usage)
          /\ ~(takes \/ records_at_once \/ records_later) => after = recorded ]_vars

\* C31: on TurnAborted for conversation c every interrupt request pending
\* for c gets exactly one response (with the abort reason under V1), the
\* responses come before the TurnCompleted(Interrupted) notification, the
\* pending requests of c are emptied (a later TurnAborted answers none of
\* them again) and the pending requests of the other conversations are
\* left as they were. The requests pending for c are those in the map when
\* the handler takes the list under the lock.
C31_TurnAbortedAnswersPendingOnce ==
    [][ \A c \in Conversations :
          LET h == handlers[c]
              n == Len(h.pending)
          IN
          /\ (h.pc = "idle" /\ handlers'[c].pc = "responding") =>
                /\ handlers'[c].pending = pending_interrupts[c]
                /\ handlers'[c].next = 1
                /\ handlers'[c].sent = <<>>
                /\ pending_interrupts'[c] = <<>>
                /\ \A d \in Conversations \ {c} :
                      pending_interrupts'[d] = pending_interrupts[d]
          /\ (h.pc = "responding" /\ handlers'[c] # h) =>
                /\ handlers'[c].pending = h.pending
                /\ \/ /\ handlers'[c].pc = "responding"
                      /\ h.next <= n
                      /\ handlers'[c].next = h.next + 1
                      /\ Len(handlers'[c].sent) = h.next
                   \/ /\ handlers'[c].pc = "emit"
                      /\ h.next = n + 1
                      /\ handlers'[c].sent = h.sent
          /\ (h.pc = "emit" /\ handlers'[c].pc = "idle" /\ h.event.msg = "TurnAborted") =>
                /\ Len(outgoing') = n + 1
                /\ \A i \in 1..n :
                      /\ "response" \in DOMAIN outgoing'[i]
                      /\ outgoing'[i].id = h.pending[i].rid
                      /\ h.pending[i].ver = "V1" =>
                            /\ outgoing'[i].response = "InterruptConversationResponse"
                            /\ outgoing'[i].abort_reason = event'.reason
                      /\ h.pending[i].ver = "V2" =>
                            outgoing'[i].response = "TurnInterruptResponse"
                /\ \A i, j \in 1..n : outgoing'[i].id = outgoing'[j].id => i = j
                /\ outgoing'[n + 1].notification = "TurnCompleted"
                /\ outgoing'[n + 1].turn.status = "Interrupted"
          /\ pending_interrupts'[c] # pending_interrupts[c] =>
                \/ h.pc = "idle" /\ handlers'[c].pc = "responding"
                \/ /\ handlers' = handlers
                   /\ Len(pending_interrupts'[c]) = Len(pending_interrupts[c]) + 1
                   /\ SubSeq(pending_interrupts'[c], 1, Len(pending_interrupts[c]))
                          = pending_interrupts[c] ]_vars

\* a V1 interrupt request of the aborted conversation was answered with the
\* reason; a request that came in after the handler took the list waits in
\* the map, as does a request of the other conversation
C31_Witness ==
    \E c \in Conversations :
        /\ handlers[c].pc = "emit"
        /\ handlers[c].event.msg = "TurnAborted"
        /\ Len(handlers[c].pending) = 1
        /\ Len(handlers[c].sent) = 1
        /\ handlers[c].sent[1].response = "InterruptConversationResponse"
        /\ handlers[c].sent[1].abort_reason = handlers[c].event.reason
        /\ pending_interrupts[c] # <<>>
        /\ \E d \in Conversations \ {c} : pending_interrupts[d] # <<>>

\* C32: a client response to an approval request (patch approval, exec
\* approval V1, command-execution approval V2) that cannot be deserialized
\* is treated as a denial: the task submits one Op for the requesting event
\* and its decision is Denied, never an approving one.
C32_UndeserializableResponseIsDenied ==
    [][ \A i \in 1..Len(callbacks) :
          LET cb == callbacks[i]
              known == IF cb.handler = "on_command_execution_request_approval_response"
                       THEN ApprovalDecisions ELSE ReviewDecisions
              type == IF cb.handler = "on_patch_approval_response"
                      THEN "PatchApproval" ELSE "ExecApproval"
          IN
          ( /\ cb.receiver.tag = "Ok"
            /\ callbacks'[i].receiver.tag = "Finished"
            /\ \/ cb.receiver.value.decision.tag = "None"
               \/ cb.receiver.value.decision.value \notin known )
          => submitted' = Append(submitted,
                                 [conversation_id |-> cb.conversation_id, op |-> type,
                                  id |-> cb.event_id, decision |-> "Denied"]) ]_vars

\* a V1 exec approval was answered with an object that has no decision, and a
\* V2 approval with a V1 response: both were denied
C32_Witness ==
    /\ Len(callbacks) = 2
    /\ callbacks[1].handler = "on_exec_approval_response"
    /\ callbacks[1].receiver = Finished(Ok(JsonObject(OptNone, OptNone)))
    /\ callbacks[2].handler = "on_command_execution_request_approval_response"
    /\ callbacks[2].receiver = Finished(Ok(JsonObject(OptSome("Approved"), OptNone)))
    /\ Len(submitted) = 2
    /\ \A k \in 1..2 : submitted[k].op = "ExecApproval" /\ submitted[k].decision = "Denied"

\* C33: every approval request forwarded to the client leads to exactly one
\* approval Op (PatchApproval or ExecApproval) submitted to the conversation
\* with the id of the requesting event, also when the response channel is
\* closed without a reply: once the tasks spawned for the requests of an
\* event have ended, the conversation has one Op of the kind for each.
C33_EveryRequestGetsOneOp ==
    \A key \in TurnKeys, type \in {"PatchApproval", "ExecApproval"} :
        LET ended == { i \in 1..Len(callbacks) :
                         /\ callbacks[i].receiver.tag = "Finished"
                         /\ callbacks[i].conversation_id = key[1]
                         /\ callbacks[i].event_id = key[2]
                         /\ type = IF callbacks[i].handler = "on_patch_approval_response"
                                   THEN "PatchApproval" ELSE "ExecApproval" }
            ops == { k \in 1..Len(submitted) :
                         /\ submitted[k].conversation_id = key[1]
                         /\ submitted[k].id = key[2]
                         /\ submitted[k].op = type }
        IN Cardinality(ops) = Cardinality(ended)

\* C34: for a V2 command-execution approval response that deserializes, the
\* submitted decision is ApprovedForSession only for Accept with
\* accept_settings present and for_session true; Accept without that gives
\* Approved, Decline gives Denied and Cancel gives Abort whatever
\* accept_settings holds.
C34_AcceptSettingsOnlyWidenAccept ==
    [][ \A i \in 1..Len(callbacks) :
          LET cb == callbacks[i]
              value == cb.receiver.value
              decision == value.decision.value
              settings == value.accept_settings
              for_session == settings.tag = "Some" /\ settings.value.for_session
          IN
          ( /\ cb.handler = "on_command_execution_request_approval_response"
            /\ cb.receiver.tag = "Ok"
            /\ callbacks'[i].receiver.tag = "Finished"
            /\ value.decision.tag = "Some"
            /\ decision \in ApprovalDecisions )
          => /\ Len(submitted') = Len(submitted) + 1
             /\ LET sent == submitted'[Len(submitted')] IN
                /\ sent.op = "ExecApproval"
                /\ sent.id = cb.event_id
                /\ sent.conversation_id = cb.conversation_id
                /\ (sent.decision = "ApprovedForSession") <=> (decision = "Accept" /\ for_session)
                /\ (decision = "Accept" /\ ~for_session) => sent.decision = "Approved"
                /\ decision = "Decline" => sent.decision = "Denied"
                /\ decision = "Cancel" => sent.decision = "Abort" ]_vars

\* Accept with for_session false was submitted as Approved and Decline with
\* for_session true as Denied
C34_Witness ==
    /\ Len(callbacks) = 2
    /\ \A i \in 1..2 : callbacks[i].handler = "on_command_execution_request_approval_response"
    /\ callbacks[1].receiver =
           Finished(Ok(JsonObject(OptSome("Accept"), OptSome([for_session |-> FALSE]))))
    /\ callbacks[2].receiver =
           Finished(Ok(JsonObject(OptSome("Decline"), OptSome([for_session |-> TRUE]))))
    /\ Len(submitted) = 2
    /\ submitted[1].decision = "Approved"
    /\ submitted[2].decision = "Denied"

\* C35: every run of the undo task emits UndoStarted exactly once, as its
\* first event, and UndoCompleted exactly once, as its last event, on every
\* path (cancelled, no snapshot, restore succeeded, restore failed, restore
\* task panicked): a started run reaches its end, at its end it has sent
\* the two events, and UndoCompleted.success is true only when the restore
\* returned success.
C35_UndoStartedThenCompleted ==
    /\ [](undo.pc # "idle" =>
            /\ Len(undo_events) \in {1, 2}
            /\ undo_events[1] = UndoStartedEvent
            /\ Len(undo_events) = 2 =>
                  /\ undo_events[2].msg = "UndoCompleted"
                  /\ undo.pc = "done"
                  /\ undo_events[2].success => undo.restore_result = "Ok")
    /\ [](undo.pc = "done" => Len(undo_events) = 2)
    /\ (undo.pc = "started") ~> (undo.pc = "done")

\* the run in which the restore task panicked has ended with the two events
C35_Witness ==
    /\ undo.pc = "done"
    /\ undo.restore_result = "Panic"
    /\ Len(undo_events) = 2
    /\ undo_events[1].msg = "UndoStarted"
    /\ undo_events[2].msg = "UndoCompleted"
    /\ ~undo_events[2].success

\* C37: items other tasks append to the session history while the restore
\* of an undo is running are still in the history after the undo completes
\* successfully: the undo takes the one GhostSnapshot item out of the
\* history as it is then and nothing else.
C37_UndoLosesNoConcurrentUpdate ==
    [][ (undo.pc = "restoring" /\ undo'.pc = "completing" /\ undo'.restore_result = "Ok")
          => session_history' = VecRemove(session_history, undo.idx) ]_vars

\* C38: if the cancellation token of an undo task is cancelled before the
\* task starts restoring the ghost commit, the restore is not invoked, the
\* history is not replaced and UndoCompleted reports success = false.
C38_CancelledBeforeRestoreSkipsRestore ==
    [][ (undo.cancelled /\ undo.pc \in {"started", "cancelling", "checked", "cloned"} /\ undo' # undo)
          => /\ undo'.restore_calls = <<>>
             /\ session_history' = session_history
             /\ undo'.pc = "done" => ~undo_events'[Len(undo_events')].success ]_vars

\* C36: a successful undo restores the most recent GhostSnapshot item of
\* the session history (the one at the highest index) and replaces the
\* history with the same items in the same order minus exactly that item;
\* when the run is cancelled, finds no snapshot, or the restore fails or
\* panics, no step of the run changes the session history.
C36_UndoRemovesLastSnapshotOnly ==
    [][ undo' # undo =>
          IF undo.pc = "restoring" /\ undo'.restore_result = "Ok"
          THEN LET idx == LastGhostSnapshot(session_history) IN
               /\ idx # 0
               /\ undo.restore_calls = << session_history[idx].ghost_commit >>
               /\ session_history' = VecRemove(session_history, idx)
          ELSE session_history' = session_history ]_vars

\* C39: every started ghost-snapshot task eventually marks the tool-call
\* gate ready with its token, exactly once, in each outcome (snapshot
\* captured, creation failed, blocking task panicked, task cancelled): the
\* gate is marked at most once, a task that has ended has marked it ready
\* with its token, and a started task ends with the gate ready.
C39_GateMarkedReadyOnce ==
    /\ [](Len(gate.marked) <= 1)
    /\ [](ghost.pc \notin {"idle", "done"} => gate = GateNew)
    /\ [](ghost.pc = "done" =>
            /\ ghost.outcome \in {"captured", "failed", "panicked", "cancelled"}
            /\ gate = [ready |-> TRUE, marked |-> << ghost.token >>])
    /\ (ghost.pc = "blocking") ~> (ghost.pc = "done" /\ gate.ready)

====
